---- MODULE Spec2Model ----
(***************************************************************************)
(* LogDevice: a state-machine model of                                     *)
(*   - BufferedWriterSingleLog (client-side batcher of one log),           *)
(*   - ZookeeperEpochStore (read-modify-write requests against znodes),    *)
(*   - SequencerRouter (routing of a request to the sequencer of a log),   *)
(*   - RandomNodeSelector (selection of nodes),                            *)
(*   - Sender (connections and their on-close callbacks), and              *)
(*   - the stop request of a client read stream.                           *)
(* Every action is one handler of the source, run to completion together   *)
(* with every call it makes.                                               *)
(***************************************************************************)
EXTENDS Integers, Sequences, FiniteSets, TLC

VARIABLES bw, nextAppend, alive, last, zk, reqs, store,
          router, selector, sender, reader,
          trim, stuck, overrides, cluster

bwVars == <<bw, nextAppend, alive, last>>

esVars == <<zk, reqs, store>>

moreVars == <<trim, stuck, overrides, cluster>>

libVars == <<router, selector, sender, reader, moreVars>>

vars == <<bw, nextAppend, alive, last, zk, reqs, store,
          router, selector, sender, reader,
          trim, stuck, overrides, cluster>>

\* the components that a specification does not use stay as they are
RouterIdle == router = [op |-> "idle"]

SelectorIdle == selector = [op |-> "idle"]

SenderIdle == sender = [op |-> "idle"]

ReaderIdle == reader = [op |-> "idle"]

TrimIdle == trim = [op |-> "idle"]

StuckIdle == stuck = [op |-> "idle"]

OverridesIdle == overrides = [op |-> "idle"]

ClusterIdle == cluster = [op |-> "idle"]

MoreIdle == TrimIdle /\ StuckIdle /\ OverridesIdle /\ ClusterIdle

(***************************************************************************)
(* Bounds of the model.                                                    *)
(***************************************************************************)
\* number of client append() calls explored
MaxAppends == 3
\* Worker::settings().max_payload_size, in bytes
MaxPayloadSize == 3
\* options_.retry_count
RetryCount == 1
\* number of requests given to the epoch store
MaxRequests == 2
\* largest epoch a request carries
MaxEpoch == 2
\* number of operations the Zookeeper client fails
MaxFailures == 1
\* number of messages a router sends for one request
MaxHops == 5
\* nodes of the cluster the router works with
NumRouterNodes == 3
\* nodes of the cluster nodes are selected from
NumSelectorNodes == 4
\* Connection objects a Sender creates
MaxConns == 2
\* on-close callbacks the users of a Sender register
MaxCallbacks == 2
\* read streams a worker is given
MaxStreams == 1
\* storage nodes a read stream reads from
NumStorageNodes == 2
\* messages that arrive for one read stream
MaxMessages == 3
\* largest trim point a storage node reports
MaxTrimPoint == 3
\* replies one GetTrimPointRequest gets
MaxReplies == 2
\* largest epoch and largest sequence number within an epoch of an LSN
EPOCH_MAX == 3
ESN_MAX == 3
\* ticks of the clock of the node whose settings are overridden
MaxTime == 4
\* longest TTL of a setting override, in ticks
MaxTtl == 2
\* setting overrides applied through the admin API
MaxApplies == 2
\* records the client of the cluster appends
MaxRecords == 2
\* generations of the server node in the configuration
MaxGeneration == 2
\* largest value of the settings that limit the closures of one pass
MaxRateLimit == 1
\* outbufs_mb_max_per_thread, counted in bytes
MaxOutbufs == 2
\* largest size of a message in the output buffers
MaxMessageBytes == 2
\* most bytes pending in the output buffers of the worker
MaxBytesPending == 4
\* budget of the flow group, in messages
MaxBandwidth == 1
\* largest version of the nodes configuration
MaxConfigVersion == 3
\* number of nodes that register themselves
NumRegistering == 2
\* number of changes other writers make to the nodes configuration beyond
\* those that use up the tries of a node
MaxOtherUpdates == 2
\* largest payload of one append, in bytes
MaxAppendSize == MaxPayloadSize - 1
\* options_.size_trigger, in bytes
SizeTrigger == MaxPayloadSize - 1
\* Worker::settings().buffered_writer_bg_thread_bytes_threshold: only a
\* batch at the payload limit is encoded on a background thread
BgThreshold == MaxPayloadSize
\* most appends handed over by one append() call (one AppendChunk)
MaxChunkLen == MaxAppends - 1

Modes == {"ONE_AT_A_TIME", "INDEPENDENT"}
AppendIds == 1..MaxAppends
BatchNums == 1..(MaxAppends + 1)
\* what the append sink answers synchronously to appendBuffered() for a batch,
\* and (on failure) what the client's onRetry() callback decides
SinkOutcomes == {"OK", "FAIL_ALLOW", "FAIL_BLOCK"}

\* the elements of a sequence
Range(f) == {f[i] : i \in DOMAIN f}

(***************************************************************************)
(* BufferedWriterSingleLog: helpers.                                       *)
(***************************************************************************)
\* the appends of a list, by the number of the append call they came from
Ids(appends) == [i \in 1..Len(appends) |-> appends[i].id]

RECURSIVE SumSizes(_)
SumSizes(appends) ==
  IF appends = <<>> THEN 0 ELSE Head(appends).sz + SumSizes(Tail(appends))

\* bytes the appends take up in the encoded blob
calculateSize(appends) == SumSizes(appends)

\* BufferedWriterPayloadMeter::memorySize summed over a chunk
memorySize(appends) == SumSizes(appends)

haveBuildingBatch(s) ==
  /\ s.batches # <<>>
  /\ s.batches[Len(s.batches)].state = "BUILDING"

calculateIsFlushable(s) ==
  \/ haveBuildingBatch(s)
  \/ s.blocked_appends_flush_deferred_count < Len(s.blocked_appends)

flushableMayHaveChanged(s) ==
  [s EXCEPT !.is_flushable = calculateIsFlushable(s)]

\* position in batches_ of the batch numbered num
Idx(s, num) == num - s.batches[1].num + 1

setBatchState(s, num, st) ==
  flushableMayHaveChanged([s EXCEPT !.batches[Idx(s, num)].state = st])

\* the callback object is handed a context set with one status
Deliver(cbs, appends, status) ==
  [a \in DOMAIN cbs |->
     IF \E i \in 1..Len(appends) : appends[i].id = a
     THEN Append(cbs[a], status) ELSE cbs[a]]

invokeCallbacks(s, num, status) ==
  LET i == Idx(s, num) IN
  [s EXCEPT !.callbacks = Deliver(@, s.batches[i].appends, status),
            !.batches[i].appends = <<>>]

finishBatch(s, num) ==
  LET t == setBatchState(s, num, "FINISHED") IN
  [t EXCEPT !.batches[Idx(t, num)].blob = 0]

RECURSIVE reap(_)
reap(s) ==
  IF s.batches # <<>> /\ s.batches[1].state = "FINISHED"
  THEN reap([s EXCEPT !.batches = Tail(@)])
  ELSE s

RECURSIVE Flatten(_)
Flatten(chunks) ==
  IF chunks = <<>> THEN <<>> ELSE Head(chunks) \o Flatten(Tail(chunks))

dropBlockedAppends(s, status) ==
  flushableMayHaveChanged(
    [s EXCEPT !.callbacks = Deliver(@, Flatten(s.blocked_appends), status),
              !.blocked_appends = <<>>,
              !.blocked_appends_flush_deferred_count = 0])

\* a writer that retries whatever options_.retry_count says
scheduleRetryAllowed_unlimited(s, num, allow) == allow

\* returns TRUE when the retry was scheduled (the source's return value 0)
scheduleRetryAllowed(s, num, allow) ==
  /\ ~(RetryCount >= 0 /\ s.batches[Idx(s, num)].retry_count >= RetryCount)
  /\ allow

scheduleRetry(s, num) ==
  LET t == setBatchState(s, num, "RETRY_PENDING") IN
  [t EXCEPT !.batches[Idx(t, num)].retry_count = @ + 1]

(***************************************************************************)
(* BufferedWriterSingleLog: the send path.  env[num] is what the sink       *)
(* answers synchronously for batch num in this handler.  When the sink      *)
(* fails synchronously appendBatch() re-enters onAppendReply() with the     *)
(* failure, from inside whatever handler is sending.                        *)
(***************************************************************************)
RECURSIVE sendLoop(_, _)
RECURSIVE unblockLoop(_, _, _)

\* onAppendReply() for a status other than OK: schedule a retry, or fail the
\* batch and (one-at-a-time) every blocked append behind it
onAppendReplyFailure(s, num, status, allow) ==
  IF scheduleRetryAllowed(s, num, allow)
  THEN scheduleRetry(s, num)
  ELSE LET t == reap(finishBatch(invokeCallbacks(s, num, status), num)) IN
       IF t.mode = "ONE_AT_A_TIME"
       THEN dropBlockedAppends(t, status)
       ELSE t

\* `sent' is the history of the batches handed to the sink, appends by id,
\* a batch sent again after a failure counted once; `sends' counts the
\* calls of appendBuffered() for the batch
appendBatch(s, num, env) ==
  LET b == s.batches[Idx(s, num)]
      t == [setBatchState(s, num, "INFLIGHT") EXCEPT
              !.sent = IF b.retry_count = 0 THEN @ \o Ids(b.appends) ELSE @,
              !.batches[Idx(s, num)].sends = @ + 1] IN
  IF env[num] = "OK"
  THEN [t EXCEPT !.sink_requests = @ \cup {num}]
  ELSE onAppendReplyFailure(t, num, "FAILED", env[num] = "FAIL_ALLOW")

\* Batch::Batch(num) pushed to batches_, then set BUILDING
\* created_while_busy records whether another unfinished batch existed then
newBatch(s, chunk) ==
  LET b == [num |-> s.next_batch_num, state |-> "BUILDING", appends |-> <<>>,
            retry_count |-> 0, sends |-> 0, blob_bytes_total |-> calculateSize(chunk),
            payload_memory_bytes_total |-> 0, blob |-> 0]
      busy == \E i \in 1..Len(s.batches) : s.batches[i].state # "FINISHED"
  IN flushableMayHaveChanged(
       [s EXCEPT !.batches = Append(@, b),
                 !.next_batch_num = @ + 1,
                 !.created_while_busy = @ \/ busy])

\* a writer that hands a batch to the sink as soon as its blob is ready
readyToSend_atOnce(s, num, env) ==
  appendBatch([setBatchState(s, num, "READY_TO_SEND") EXCEPT
                 !.next_batch_to_send = @ + 1], num, env)

readyToSend(s, num, env) ==
  sendLoop(setBatchState(s, num, "READY_TO_SEND"), env)

sendLoop(s, env) ==
  IF s.batches = <<>> THEN s
  ELSE LET index == s.next_batch_to_send - s.batches[1].num IN
       IF index < 0 \/ index >= Len(s.batches) THEN s
       ELSE IF s.batches[index + 1].state # "READY_TO_SEND" THEN s
       ELSE sendLoop(appendBatch([s EXCEPT !.next_batch_to_send = @ + 1],
                                 s.batches[index + 1].num, env), env)

construct_blob(s, num, env) ==
  IF s.shutting_down THEN s
  ELSE IF s.batches[Idx(s, num)].blob_bytes_total < BgThreshold
  THEN readyToSend(
         [s EXCEPT !.batches[Idx(s, num)].blob = s.batches[Idx(s, num)].blob_bytes_total],
         num, env)
  ELSE [s EXCEPT !.bg_tasks = @ \cup {num}]

sendBatch(s, num, env) ==
  IF s.batches[Idx(s, num)].state = "BUILDING"
  THEN construct_blob(setBatchState(s, num, "CONSTRUCTING_BLOB"), num, env)
  ELSE appendBatch(s, num, env)

flushBuildingBatch(s, env) ==
  sendBatch(s, s.batches[Len(s.batches)].num, env)

flushMeMaybe(s, defer_client_size_trigger, env) ==
  LET batch == s.batches[Len(s.batches)] IN
  IF batch.blob_bytes_total >= MaxPayloadSize
  THEN flushBuildingBatch(s, env)
  ELSE IF /\ ~defer_client_size_trigger
          /\ SizeTrigger >= 0
          /\ batch.payload_memory_bytes_total >= SizeTrigger
  THEN flushBuildingBatch(s, env)
  ELSE s

\* a writer that never makes a new batch wait for an unfinished one
mustWaitForInflight_never(s) == FALSE

\* in the one-at-a-time mode a batch that is not finished blocks a new one
mustWaitForInflight(s) ==
  s.mode = "ONE_AT_A_TIME" /\ s.batches # <<>>

\* what is left in a chunk after its appends were moved out: the contexts
\* (plain pointers, copied by a move) and empty payloads
MovedFrom(chunk) == [i \in 1..Len(chunk) |-> [id |-> chunk[i].id, sz |-> 0]]

\* appendImpl(), from "Add these appends to the BUILDING batch" on
appendImplAdd(s2, chunk, defer_client_size_trigger, env, from_queue) ==
  flushMeMaybe(
    [s2 EXCEPT
       !.batches[Len(s2.batches)].payload_memory_bytes_total = @ + memorySize(chunk),
       !.batches[Len(s2.batches)].appends = @ \o chunk,
       \* the appends are moved out of the chunk, which stays in the queue
       !.blocked_appends =
          IF from_queue /\ @ # <<>> THEN <<MovedFrom(@[1])>> \o Tail(@) ELSE @,
       \* the queue was cleared under the reference: the chunk dangles
       !.ub = @ \/ (from_queue /\ s2.blocked_appends = <<>>)],
    defer_client_size_trigger, env)

\* appendImpl(), from "If there is no batch in the BUILDING state" on
appendImplCreate(s1, chunk, defer_client_size_trigger, env, from_queue) ==
  IF ~haveBuildingBatch(s1) /\ mustWaitForInflight(s1)
  THEN [s |-> s1, rv |-> -1]
  ELSE [s |-> appendImplAdd(
                IF ~haveBuildingBatch(s1) THEN newBatch(s1, chunk) ELSE s1,
                chunk, defer_client_size_trigger, env, from_queue),
        rv |-> 0]

\* a writer that adds to the BUILDING batch whatever its size becomes
appendImpl_noLimit(s, chunk, defer_client_size_trigger, env, from_queue) ==
  appendImplCreate(
    IF haveBuildingBatch(s)
    THEN [s EXCEPT !.batches[Len(s.batches)].blob_bytes_total =
                      calculateSize(s.batches[Len(s.batches)].appends \o chunk)]
    ELSE s,
    chunk, defer_client_size_trigger, env, from_queue)

\* from_queue: chunk is a reference to the front of blocked_appends_
appendImpl(s, chunk, defer_client_size_trigger, env, from_queue) ==
  appendImplCreate(
    IF haveBuildingBatch(s)
    THEN IF calculateSize(s.batches[Len(s.batches)].appends \o chunk) > MaxPayloadSize
         THEN flushBuildingBatch(s, env)
         ELSE [s EXCEPT !.batches[Len(s.batches)].blob_bytes_total =
                           calculateSize(s.batches[Len(s.batches)].appends \o chunk)]
    ELSE s,
    chunk, defer_client_size_trigger, env, from_queue)

\* unblockAppends(): the loop body after appendImpl() returned r for the
\* front chunk of the queue s had
unblockStep(s, r, flush_at_end, env) ==
  IF r.rv # 0 THEN [s |-> r.s, flush_at_end |-> flush_at_end]
  ELSE IF r.s.blocked_appends = <<>>
  \* pop_front() of an empty deque: undefined behaviour
  THEN [s |-> [r.s EXCEPT !.ub = TRUE,
                          !.stale = MovedFrom(s.blocked_appends[1])],
        flush_at_end |-> flush_at_end]
  ELSE IF r.s.blocked_appends_flush_deferred_count > 0
  THEN unblockLoop(
         [r.s EXCEPT !.blocked_appends = Tail(@),
                     !.blocked_appends_flush_deferred_count = @ - 1],
         TRUE, env)
  ELSE unblockLoop([r.s EXCEPT !.blocked_appends = Tail(@)], flush_at_end, env)

unblockLoop(s, flush_at_end, env) ==
  IF s.blocked_appends = <<>> THEN [s |-> s, flush_at_end |-> flush_at_end]
  ELSE unblockStep(
         s,
         appendImpl(s, s.blocked_appends[1], Len(s.blocked_appends) > 1, env, TRUE),
         flush_at_end, env)

\* unblockAppends(), after the loop
unblockFinish(r, env) ==
  IF r.s.ub THEN r.s
  ELSE IF r.flush_at_end /\ haveBuildingBatch(r.s)
  THEN flushBuildingBatch(r.s, env)
  ELSE flushableMayHaveChanged(r.s)

unblockAppends(s, env) == unblockFinish(unblockLoop(s, FALSE, env), env)

\* a writer that leaves the queue alone when a batch is stored
onAppendReplyDone_queueKept(t, env) == t

\* onAppendReply() for status OK, after invokeCallbacks, finishBatch, reap
onAppendReplyDone(t, env) ==
  IF t.mode = "ONE_AT_A_TIME" THEN unblockAppends(t, env) ELSE t

onAppendReply(s, num, status, allow, env) ==
  IF status # "OK"
  THEN onAppendReplyFailure(s, num, status, allow)
  ELSE onAppendReplyDone(reap(finishBatch(invokeCallbacks(s, num, status), num)), env)

\* a writer whose blocked chunk goes to the head of the queue
pushBlocked_front(s, chunk) ==
  flushableMayHaveChanged([s EXCEPT !.blocked_appends = <<chunk>> \o @])

\* blocked_appends_->push_back(chunk); flushableMayHaveChanged()
pushBlocked(s, chunk) ==
  flushableMayHaveChanged([s EXCEPT !.blocked_appends = Append(@, chunk)])

\* append(), after appendImpl() returned r
appendBlocked(r, chunk) ==
  IF r.rv # 0 THEN pushBlocked(r.s, chunk) ELSE r.s

append(s, chunk, env) ==
  appendBlocked(appendImpl(s, chunk, FALSE, env, FALSE), chunk)

\* flushAll(), after the building batch was flushed
flushAllDefer(t) ==
  flushableMayHaveChanged(
    [t EXCEPT !.blocked_appends_flush_deferred_count = Len(t.blocked_appends)])

flushAll(s, env) ==
  flushAllDefer(IF haveBuildingBatch(s) THEN flushBuildingBatch(s, env) ELSE s)

RECURSIVE shutdownBatches(_, _)
shutdownBatches(s, i) ==
  IF i > Len(s.batches) THEN s
  ELSE IF s.batches[i].state # "FINISHED"
  THEN shutdownBatches(
         finishBatch(invokeCallbacks(s, s.batches[i].num, "SHUTDOWN"),
                     s.batches[i].num), i + 1)
  ELSE shutdownBatches(s, i + 1)

\* a destructor that leaves the blocked queue alone
Destructor_keepsBlocked(s) == shutdownBatches(s, 1)

\* ~BufferedWriterSingleLog()
Destructor(s) == dropBlockedAppends(shutdownBatches(s, 1), "SHUTDOWN")

(***************************************************************************)
(* ZookeeperEpochStore.  One log.  The Zookeeper service is a tree of      *)
(* versioned znodes: the root path of the cluster and, under it, the       *)
(* znode of the log with its children.  A znode value is the epoch it      *)
(* holds, 0 for the empty value.                                           *)
(***************************************************************************)
Znodes == {"logroot", "sequencer", "lce", "metadatalog_lce"}

NoNode == [exists |-> FALSE, value |-> 0, version |-> 0]

Node(value, version) == [exists |-> TRUE, value |-> value, version |-> version]

\* what the Zookeeper client can report besides the answer of the service
FailureRcs == {"ZCONNECTIONLOSS", "ZCLOSING"}

\* ZookeeperClientBase::toStatus
toStatus(rc) ==
  CASE rc = "ZOK" -> "OK"
    [] rc = "ZNONODE" -> "NOTFOUND"
    [] rc = "ZNODEEXISTS" -> "EXISTS"
    [] rc = "ZBADVERSION" -> "VERSION_MISMATCH"
    [] rc = "ZCONNECTIONLOSS" -> "CONNFAILED"
    [] rc = "ZCLOSING" -> "SHUTDOWN"
    [] OTHER -> "UNKNOWN"

\* completionStatus() without the translation of a version mismatch
completionStatus_raw(rc, zstate) ==
  IF rc = "ZRUNTIMEINCONSISTENCY" THEN "FAILED"
  ELSE IF rc = "ZBADARGUMENTS" THEN "INTERNAL"
  ELSE IF rc = "ZINVALIDSTATE"
  THEN (IF zstate = "EXPIRED_SESSION" THEN "NOTCONN"
        ELSE IF zstate = "AUTH_FAILED" THEN "ACCESS"
        ELSE "FAILED")
  ELSE toStatus(rc)

completionStatus(rc, zstate) ==
  IF rc = "ZRUNTIMEINCONSISTENCY" THEN "FAILED"
  ELSE IF rc = "ZBADARGUMENTS" THEN "INTERNAL"
  ELSE IF rc = "ZINVALIDSTATE"
  THEN (IF zstate = "EXPIRED_SESSION" THEN "NOTCONN"
        ELSE IF zstate = "AUTH_FAILED" THEN "ACCESS"
        ELSE "FAILED")
  ELSE IF toStatus(rc) = "VERSION_MISMATCH" THEN "AGAIN"
  ELSE toStatus(rc)

\* zrq->getZnodePath(rootPath()): the znode a request reads and writes
getZnodePath(kind) ==
  IF kind = "EpochMetaDataZRQ" THEN "sequencer" ELSE "lce"

\* the parent of a znode of the log: the root path for the log's own znode
parentExists(z, path) ==
  IF path = "logroot" THEN z.root ELSE z.nodes["logroot"].exists

\* Zookeeper getData
zkGetData(z, path) ==
  IF z.nodes[path].exists
  THEN [rc |-> "ZOK", value |-> z.nodes[path].value,
        version |-> z.nodes[path].version]
  ELSE [rc |-> "ZNONODE", value |-> 0, version |-> -1]

\* Zookeeper setData: version -1 writes whatever the version of the znode is
zkSetData(z, path, value, version) ==
  IF ~z.nodes[path].exists THEN [rc |-> "ZNONODE", z |-> z]
  ELSE IF version # -1 /\ version # z.nodes[path].version
  THEN [rc |-> "ZBADVERSION", z |-> z]
  ELSE [rc |-> "ZOK",
        z |-> [z EXCEPT !.nodes[path] =
                 Node(value, z.nodes[path].version + 1)]]

\* the create operations of a multi-op, one after the other
RECURSIVE zkCreates(_, _)
zkCreates(z, ops) ==
  IF ops = <<>> THEN [rc |-> "ZOK", z |-> z]
  ELSE IF ~parentExists(z, ops[1].path) THEN [rc |-> "ZNONODE", z |-> z]
  ELSE IF z.nodes[ops[1].path].exists THEN [rc |-> "ZNODEEXISTS", z |-> z]
  ELSE zkCreates([z EXCEPT !.nodes[ops[1].path] = Node(ops[1].value, 0)],
                 Tail(ops))

\* Zookeeper multi: every operation takes effect, or none does
zkMultiOp(z, ops) ==
  IF zkCreates(z, ops).rc = "ZOK" THEN zkCreates(z, ops)
  ELSE [rc |-> zkCreates(z, ops).rc, z |-> z]

\* Zookeeper createWithAncestors(rootPath())
zkCreateWithAncestors(z) ==
  IF z.root THEN [rc |-> "ZNODEEXISTS", z |-> z]
  ELSE [rc |-> "ZOK", z |-> [z EXCEPT !.root = TRUE]]

\* the operations a provisioning without the last-clean-epoch znodes issues
provisionOps_partial(znode_value) ==
  << [path |-> "logroot", value |-> 0],
     [path |-> "sequencer", value |-> znode_value] >>

\* provisionLogZnodes(): the operations of the multi-op
provisionOps(znode_value) ==
  << [path |-> "logroot", value |-> 0],
     [path |-> "sequencer", value |-> znode_value],
     [path |-> "lce", value |-> 0],
     [path |-> "metadatalog_lce", value |-> 0] >>

\* ZookeeperEpochStoreRequest::applyChanges of the three request classes:
\* the next step, the status left in err, and the value to write
applyChanges(req, value, value_existed) ==
  CASE req.kind = "GetLastCleanEpochZRQ" ->
         IF value_existed
         THEN [step |-> "STOP", err |-> "OK", value |-> value]
         ELSE [step |-> "FAILED", err |-> "NOTFOUND", value |-> value]
    [] req.kind = "SetLastCleanEpochZRQ" ->
         IF ~value_existed
         THEN [step |-> "FAILED", err |-> "NOTFOUND", value |-> value]
         ELSE IF req.epoch <= value
         THEN [step |-> "FAILED", err |-> "STALE", value |-> value]
         ELSE [step |-> "MODIFY", err |-> "OK", value |-> req.epoch]
    [] OTHER ->
         IF ~value_existed
         THEN (IF req.provision
               THEN [step |-> "PROVISION", err |-> "OK", value |-> 1]
               ELSE [step |-> "FAILED", err |-> "NOTFOUND", value |-> value])
         ELSE IF req.epoch = 0
         THEN [step |-> "STOP", err |-> "UPTODATE", value |-> value]
         ELSE [step |-> "MODIFY", err |-> "OK", value |-> value + req.epoch]

\* the request object is destroyed once it is completed: what stays of it is
\* the history the properties speak about
Destroyed(req) == [req EXCEPT !.phase = "done", !.value = 0, !.version = -1]

\* postRequestCompletion() that posts the successes only
postRequestCompletion_errorsDropped(req, st, shutting_down) ==
  IF st = "OK"
  THEN [Destroyed(req) EXCEPT
          !.posted = Append(@, [st |-> st, shutting_down |-> shutting_down])]
  ELSE Destroyed(req)

\* postRequestCompletion() that posts whatever the status is
postRequestCompletion_always(req, st, shutting_down) ==
  [Destroyed(req) EXCEPT
     !.posted = Append(@, [st |-> st, shutting_down |-> shutting_down])]

\* postRequestCompletion(): `posted' is what was given to postCompletion(),
\* with the value shutting_down_ had then
postRequestCompletion(req, st, shutting_down) ==
  IF st # "SHUTDOWN" \/ ~shutting_down
  THEN [Destroyed(req) EXCEPT
          !.posted = Append(@, [st |-> st, shutting_down |-> shutting_down])]
  ELSE Destroyed(req)

\* provisionLogZnodes(), up to the call of multiOp()
provisionLogZnodes(req) ==
  [req EXCEPT !.phase = "multiOp", !.multis = @ + 1]

\* the next steps after which onGetZnodeComplete() goes on to write
continuesToWrite(step) == step \in {"PROVISION", "MODIFY"}

\* the version the conditional setData() is given: stat.version_
setDataVersion_any(stat_version) == -1

setDataVersion(stat_version) == stat_version

\* onGetZnodeComplete(), after applyChanges() gave `next'
onGetZnodeApplied(req, next, stat_version, shutting_down) ==
  IF ~continuesToWrite(next.step)
  THEN postRequestCompletion(req, next.err, shutting_down)
  ELSE IF next.step = "PROVISION"
  THEN provisionLogZnodes([req EXCEPT !.value = next.value])
  ELSE [req EXCEPT !.phase = "setData", !.value = next.value,
                   !.version = setDataVersion(stat_version),
                   !.writes = @ + 1]

\* onGetZnodeComplete(rc, value_from_zk, stat, zrq)
onGetZnodeComplete(req, rc, zstate, value, stat_version, shutting_down) ==
  IF completionStatus(rc, zstate) \in {"OK", "NOTFOUND"}
  THEN onGetZnodeApplied(
         [req EXCEPT !.rc = rc, !.read_version = stat_version],
         applyChanges(req, value, completionStatus(rc, zstate) = "OK"),
         stat_version, shutting_down)
  ELSE postRequestCompletion([req EXCEPT !.rc = rc],
                             completionStatus(rc, zstate), shutting_down)

\* the callback of setData() that runs the request again on a mismatch
onSetDataComplete_retry(req, rc, zstate, shutting_down) ==
  IF completionStatus(rc, zstate) = "AGAIN"
  THEN [req EXCEPT !.rc = rc, !.phase = "getData", !.reads = @ + 1]
  ELSE postRequestCompletion([req EXCEPT !.rc = rc],
                             completionStatus(rc, zstate), shutting_down)

\* the callback given to setData()
onSetDataComplete(req, rc, zstate, shutting_down) ==
  postRequestCompletion([req EXCEPT !.rc = rc],
                        completionStatus(rc, zstate), shutting_down)

\* a callback of multiOp() that also creates the root and runs the multi-op
\* again when a znode of the log exists already
onMultiOpComplete_againOnExists(req, rc, zstate, shutting_down, zk_create_root_znodes) ==
  IF completionStatus(rc, zstate) \in {"NOTFOUND", "EXISTS"} /\ zk_create_root_znodes
  THEN [req EXCEPT !.rc = rc, !.phase = "createWithAncestors"]
  ELSE postRequestCompletion([req EXCEPT !.rc = rc],
                             completionStatus(rc, zstate), shutting_down)

\* the callback given to multiOp()
onMultiOpComplete(req, rc, zstate, shutting_down, zk_create_root_znodes) ==
  IF completionStatus(rc, zstate) = "NOTFOUND" /\ zk_create_root_znodes
  THEN [req EXCEPT !.rc = rc, !.phase = "createWithAncestors"]
  ELSE postRequestCompletion([req EXCEPT !.rc = rc],
                             completionStatus(rc, zstate), shutting_down)

\* the callback given to createWithAncestors()
onCreateRootComplete(req, rc, zstate, shutting_down) ==
  IF completionStatus(rc, zstate) \in {"OK", "EXISTS"}
  THEN provisionLogZnodes([req EXCEPT !.rc = rc])
  ELSE postRequestCompletion([req EXCEPT !.rc = rc],
                             completionStatus(rc, zstate), shutting_down)

\* runRequest(): the request object and its getData()
runRequest(kind, epoch, provision) ==
  [kind |-> kind, epoch |-> epoch, provision |-> provision,
   phase |-> "getData", rc |-> "none", read_version |-> -1, version |-> -1,
   value |-> 0, over |-> -1, posted |-> <<>>,
   reads |-> 1, writes |-> 0, multis |-> 0]

\* what the client reports: the answer of the service, or a failure; an
\* operation whose answer is lost may have taken effect
Answers(served, z) ==
  {[rc |-> served.rc, z |-> served.z, failed |-> 0]}
    \cup (IF store.failures < MaxFailures
          THEN {[rc |-> rc, z |-> zz, failed |-> 1] :
                  rc \in FailureRcs, zz \in {z, served.z}}
          ELSE {})

ZkStates ==
  { [root |-> FALSE, nodes |-> [n \in Znodes |-> NoNode]],
    [root |-> TRUE, nodes |-> [n \in Znodes |-> NoNode]],
    [root |-> TRUE,
     nodes |-> [n \in Znodes |-> IF n = "sequencer" THEN Node(1, 0)
                                 ELSE Node(0, 0)]] }

\* the epoch store is not used
ESIdle ==
  /\ zk = [root |-> FALSE, nodes |-> [n \in Znodes |-> NoNode]]
  /\ reqs = <<>>
  /\ store = [shutting_down |-> TRUE, closed |-> TRUE,
              zk_create_root_znodes |-> FALSE, failures |-> 0,
              err |-> "none", invalid_calls |-> 0, aborted |-> FALSE]

\* a call can be made: the store is alive, and the calls made so far,
\* refused ones included, are fewer than MaxRequests
CanCall ==
  /\ ~store.shutting_down
  /\ ~store.aborted
  /\ Len(reqs) + store.invalid_calls < MaxRequests

GetLastCleanEpoch ==
  /\ CanCall
  /\ reqs' = Append(reqs, runRequest("GetLastCleanEpochZRQ", 0, FALSE))
  /\ UNCHANGED <<zk, store, bwVars, libVars>>

\* the tail records a caller can pass: TailRecord::isValid() and
\* TailRecord::containOffsetWithinEpoch()
TailRecords == [isValid : BOOLEAN, containOffsetWithinEpoch : BOOLEAN]

\* a store that hands every tail record to runRequest
setLastCleanEpoch_unchecked(lce, tail_record) ==
  [rv |-> 0, err |-> "none",
   zrq |-> <<runRequest("SetLastCleanEpochZRQ", lce, FALSE)>>]

\* setLastCleanEpoch(logid, lce, tail_record, cf): the value returned, the
\* value given to err ("none": err is left alone) and the request handed to
\* runRequest, if any
setLastCleanEpoch(lce, tail_record) ==
  IF ~tail_record.isValid \/ tail_record.containOffsetWithinEpoch
  THEN [rv |-> -1, err |-> "INVALID_PARAM", zrq |-> <<>>]
  ELSE [rv |-> 0, err |-> "none",
        zrq |-> <<runRequest("SetLastCleanEpochZRQ", lce, FALSE)>>]

\* ld_check(false) on the refusal path: nothing in a build without
\* assertions, the end of the process in a build with them
ldCheckFalseAborts == BOOLEAN

\* a call of setLastCleanEpoch; invalid_calls counts the calls made with a
\* tail record that is invalid or carries offsets within the epoch
SetLastCleanEpoch ==
  /\ CanCall
  /\ \E lce \in 1..MaxEpoch, tail_record \in TailRecords :
       LET bad == ~tail_record.isValid \/ tail_record.containOffsetWithinEpoch
           res == setLastCleanEpoch(lce, tail_record)
       IN /\ reqs' = reqs \o res.zrq
          /\ \E aborts \in (IF res.rv = -1 THEN ldCheckFalseAborts ELSE {FALSE}) :
               store' = [store EXCEPT
                 !.err = IF res.err = "none" THEN @ ELSE res.err,
                 !.invalid_calls = IF bad THEN @ + 1 ELSE @,
                 !.aborted = aborts]
  /\ UNCHANGED <<zk, bwVars, libVars>>

\* createOrUpdateMetaData(logid, updater, cf, ...) for a data log: the
\* updater either advances the epoch of the metadata and provisions an empty
\* log, or leaves the metadata as it is and does not provision
CreateOrUpdateMetaData ==
  /\ CanCall
  /\ \E provision \in BOOLEAN :
       reqs' = Append(reqs, runRequest("EpochMetaDataZRQ",
                                      IF provision THEN 1 ELSE 0, provision))
  /\ UNCHANGED <<zk, store, bwVars, libVars>>

\* the operation of request r is outstanding and its callback can still run
Outstanding(r, phase) ==
  /\ r \in 1..Len(reqs)
  /\ reqs[r].phase = phase
  /\ ~store.closed
  /\ ~store.aborted

\* getData() completes and its callback runs
GetDataComplete ==
  \E r \in 1..Len(reqs) :
    /\ Outstanding(r, "getData")
    /\ \E a \in Answers([rc |-> zkGetData(zk, getZnodePath(reqs[r].kind)).rc,
                          z |-> zk], zk) :
         /\ store' = [store EXCEPT !.failures = @ + a.failed]
         /\ reqs' = [reqs EXCEPT ![r] =
              IF a.failed = 0
              THEN onGetZnodeComplete(
                     reqs[r], a.rc, "CONNECTED",
                     zkGetData(zk, getZnodePath(reqs[r].kind)).value,
                     zkGetData(zk, getZnodePath(reqs[r].kind)).version,
                     store.shutting_down)
              ELSE onGetZnodeComplete(reqs[r], a.rc, "CONNECTED", 0, -1,
                                      store.shutting_down)]
    /\ UNCHANGED <<zk, bwVars, libVars>>

\* setData() completes and its callback runs
SetDataComplete ==
  \E r \in 1..Len(reqs) :
    /\ Outstanding(r, "setData")
    /\ \E a \in Answers(zkSetData(zk, getZnodePath(reqs[r].kind),
                                  reqs[r].value, reqs[r].version), zk) :
         /\ zk' = a.z
         /\ store' = [store EXCEPT !.failures = @ + a.failed]
         /\ reqs' = [reqs EXCEPT ![r] =
              onSetDataComplete(
                [reqs[r] EXCEPT !.over =
                   IF a.z # zk
                   THEN zk.nodes[getZnodePath(reqs[r].kind)].version ELSE @],
                a.rc, "CONNECTED", store.shutting_down)]
    /\ UNCHANGED <<bwVars, libVars>>

\* multiOp() completes and its callback runs
MultiOpComplete ==
  \E r \in 1..Len(reqs) :
    /\ Outstanding(r, "multiOp")
    /\ \E a \in Answers(zkMultiOp(zk, provisionOps(reqs[r].value)), zk) :
         /\ zk' = a.z
         /\ store' = [store EXCEPT !.failures = @ + a.failed]
         /\ reqs' = [reqs EXCEPT ![r] =
              onMultiOpComplete(reqs[r], a.rc, "CONNECTED", store.shutting_down,
                                store.zk_create_root_znodes)]
    /\ UNCHANGED <<bwVars, libVars>>

\* createWithAncestors() completes and its callback runs
CreateRootComplete ==
  \E r \in 1..Len(reqs) :
    /\ Outstanding(r, "createWithAncestors")
    /\ \E a \in Answers(zkCreateWithAncestors(zk), zk) :
         /\ zk' = a.z
         /\ store' = [store EXCEPT !.failures = @ + a.failed]
         /\ reqs' = [reqs EXCEPT ![r] =
              onCreateRootComplete(reqs[r], a.rc, "CONNECTED", store.shutting_down)]
    /\ UNCHANGED <<bwVars, libVars>>

\* ~ZookeeperEpochStore(): shutting_down_.store(true)
DestructorBegins ==
  /\ ~store.shutting_down
  /\ ~store.aborted
  /\ store' = [store EXCEPT !.shutting_down = TRUE]
  /\ UNCHANGED <<zk, reqs, bwVars, libVars>>

\* ~ZookeeperEpochStore(): zkclient_->close() returns, no callback runs
\* after it
DestructorCloses ==
  /\ store.shutting_down
  /\ ~store.closed
  /\ ~store.aborted
  /\ store' = [store EXCEPT !.closed = TRUE]
  /\ UNCHANGED <<zk, reqs, bwVars, libVars>>

ESNext ==
  \/ GetLastCleanEpoch
  \/ SetLastCleanEpoch
  \/ CreateOrUpdateMetaData
  \/ GetDataComplete
  \/ SetDataComplete
  \/ MultiOpComplete
  \/ CreateRootComplete
  \/ DestructorBegins
  \/ DestructorCloses

(***************************************************************************)
(* BufferedWriterSingleLog: state and actions.                             *)
(***************************************************************************)
BWInitial(mode) ==
  [batches |-> <<>>, blocked_appends |-> <<>>,
   blocked_appends_flush_deferred_count |-> 0,
   next_batch_num |-> 1, next_batch_to_send |-> 1,
   is_flushable |-> FALSE, mode |-> mode,
   callbacks |-> [a \in AppendIds |-> <<>>],
   sink_requests |-> {}, log |-> <<>>, sent |-> <<>>, bg_tasks |-> {},
   shutting_down |-> FALSE, ub |-> FALSE, stale |-> <<>>,
   created_while_busy |-> FALSE]

BWIdle == bw = BWInitial("ONE_AT_A_TIME") /\ nextAppend = 1
            /\ alive = "destroyed" /\ last = [op |-> "none"]

BWInitMode(mode) ==
  /\ ESIdle
  /\ RouterIdle /\ SelectorIdle /\ SenderIdle /\ ReaderIdle
  /\ MoreIdle
  /\ bw = BWInitial(mode)
  /\ nextAppend = 1
  /\ alive = "running"
  /\ last = [op |-> "init"]

\* the batches this handler can hand to the sink: the ones waiting to be
\* sent and the one it may create
Relevant(s) ==
  {s.batches[i].num :
     i \in {j \in 1..Len(s.batches) :
               s.batches[j].state \notin {"FINISHED", "INFLIGHT"}}}
    \cup {s.next_batch_num}

Envs(s) ==
  {[n \in BatchNums |-> IF n \in Relevant(s) THEN g[n] ELSE "OK"] :
     g \in [Relevant(s) \cap BatchNums -> SinkOutcomes]}

Chunks ==
  UNION {[1..n -> [id : {0}, sz : 1..MaxAppendSize]] : n \in 1..MaxChunkLen}

\* the appends of one append() call get the next ids, in call order
Numbered(c, first) == [i \in 1..Len(c) |-> [id |-> first + i - 1, sz |-> c[i].sz]]

\* a handler ran into undefined behaviour (pop_front() of the emptied queue,
\* after a read through the dangling front chunk): the process dies there, or
\* first reads the stale slot of the queue once more
UBOutcomes(s, env) ==
  {s, appendImpl(s, s.stale, TRUE, env, FALSE).s}

Settle(s, env, op) ==
  /\ last' = op
  /\ IF s.ub
     THEN /\ alive' = "crashed"
          /\ bw' \in UBOutcomes(s, env)
     ELSE /\ alive' = alive
          /\ bw' = s

ClientAppend ==
  /\ UNCHANGED <<esVars, libVars>>
  /\ alive = "running"
  /\ \E c \in Chunks, env \in Envs(bw) :
       /\ nextAppend + Len(c) - 1 <= MaxAppends
       /\ calculateSize(c) <= MaxPayloadSize
       /\ nextAppend' = nextAppend + Len(c)
       /\ Settle(append(bw, Numbered(c, nextAppend), env), env,
                 [op |-> "append", first |-> nextAppend, n |-> Len(c),
                  size |-> calculateSize(c)])

\* the time trigger fires, or the client calls flush
FlushAll ==
  /\ UNCHANGED <<esVars, libVars>>
  /\ alive = "running"
  /\ bw.is_flushable
  /\ \E env \in Envs(bw) :
       Settle(flushAll(bw, env), env, [op |-> "flushAll"])
  /\ UNCHANGED nextAppend

\* the blob of a large batch was built on a background thread
ContinueBlobSend ==
  /\ UNCHANGED <<esVars, libVars>>
  /\ alive = "running"
  /\ \E num \in bw.bg_tasks, env \in Envs(bw) :
       LET s == [bw EXCEPT !.bg_tasks = @ \ {num},
                           !.batches[Idx(bw, num)].blob =
                              bw.batches[Idx(bw, num)].blob_bytes_total]
       IN Settle(readyToSend(s, num, env), env,
                 [op |-> "continueBlobSend", num |-> num])
  /\ UNCHANGED nextAppend

\* the sink's reply to a batch it accepted: stored (OK) or failed
AppendReply ==
  /\ UNCHANGED <<esVars, libVars>>
  /\ alive = "running"
  /\ \E num \in bw.sink_requests, st \in {"OK", "FAILED"},
        allow \in BOOLEAN, env \in Envs(bw) :
       LET s == [bw EXCEPT
                   !.sink_requests = @ \ {num},
                   !.log = IF st = "OK"
                           THEN @ \o [i \in 1..Len(bw.batches[Idx(bw, num)].appends) |->
                                        bw.batches[Idx(bw, num)].appends[i].id]
                           ELSE @]
       IN /\ (st = "OK" => allow)
          /\ Settle(onAppendReply(s, num, st, allow, env), env,
                    [op |-> "reply", num |-> num, status |-> st,
                     sends |-> bw.batches[Idx(bw, num)].sends])
  /\ UNCHANGED nextAppend

\* batch.retry_timer fires
RetryTimer ==
  /\ UNCHANGED <<esVars, libVars>>
  /\ alive = "running"
  /\ \E i \in 1..Len(bw.batches), env \in Envs(bw) :
       /\ bw.batches[i].state = "RETRY_PENDING"
       /\ Settle(sendBatch(bw, bw.batches[i].num, env), env,
                 [op |-> "retry", num |-> bw.batches[i].num,
                  retry_count |-> bw.batches[i].retry_count])
  /\ UNCHANGED nextAppend

BeginShutdown ==
  /\ UNCHANGED <<esVars, libVars>>
  /\ alive = "running"
  /\ ~bw.shutting_down
  /\ bw' = [bw EXCEPT !.shutting_down = TRUE]
  /\ last' = [op |-> "beginShutdown"]
  /\ UNCHANGED <<nextAppend, alive>>

Destroy ==
  /\ UNCHANGED <<esVars, libVars>>
  /\ alive = "running"
  /\ bw.shutting_down
  /\ bw' = Destructor(bw)
  /\ alive' = "destroyed"
  /\ last' = [op |-> "destroy"]
  /\ UNCHANGED nextAppend

\* a reply that arrives after the writer is gone is ignored
IgnoredReply ==
  /\ UNCHANGED <<esVars, libVars>>
  /\ alive = "destroyed"
  /\ \E num \in bw.sink_requests :
       /\ bw' = [bw EXCEPT !.sink_requests = @ \ {num}]
       /\ last' = [op |-> "ignoredReply", num |-> num]
  /\ UNCHANGED <<nextAppend, alive>>

BWNext ==
  \/ ClientAppend
  \/ FlushAll
  \/ ContinueBlobSend
  \/ AppendReply
  \/ RetryTimer
  \/ BeginShutdown
  \/ Destroy
  \/ IgnoredReply

\* the writer of a log in the one-at-a-time mode
SpecBufferedWriter == BWInitMode("ONE_AT_A_TIME") /\ [][BWNext]_vars

\* the operations the replies of the sink can record in state s
AppendReplyOps(s) ==
  {[op |-> "reply", num |-> num, status |-> st,
    sends |-> s.batches[Idx(s, num)].sends] :
     num \in s.sink_requests, st \in {"OK", "FAILED"}}

\* the operations the retry timers armed in state s can record
RetryTimerOps(s) ==
  {[op |-> "retry", num |-> s.batches[i].num,
    retry_count |-> s.batches[i].retry_count] :
     i \in {j \in 1..Len(s.batches) : s.batches[j].state = "RETRY_PENDING"}}

\* the operations the background threads busy in state s can record
ContinueBlobSendOps(s) ==
  {[op |-> "continueBlobSend", num |-> num] : num \in s.bg_tasks}

\* the steps of AppendReply, RetryTimer, ContinueBlobSend and Destroy, told by
\* the operation a step records: each handler is enabled whenever its
\* operation set is not empty, and no other step records its operation
AppendReplyStep == alive = "running" /\ last' \in AppendReplyOps(bw)

RetryTimerStep == alive = "running" /\ last' \in RetryTimerOps(bw)

ContinueBlobSendStep == alive = "running" /\ last' \in ContinueBlobSendOps(bw)

DestroyStep == alive = "running" /\ bw.shutting_down /\ last' = [op |-> "destroy"]

\* the writer of a log in the one-at-a-time mode, with a sink that answers
\* every batch it has accepted, retry timers that fire, background threads
\* that finish their blobs, and a writer that is destroyed once its shutdown
\* has begun
SpecBufferedWriterFair ==
  /\ BWInitMode("ONE_AT_A_TIME")
  /\ [][BWNext]_vars
  /\ WF_last(AppendReplyStep)
  /\ WF_last(RetryTimerStep)
  /\ WF_last(ContinueBlobSendStep)
  /\ WF_last(DestroyStep)

\* the writer of a log in the independent mode
SpecBufferedWriterIndependent == BWInitMode("INDEPENDENT") /\ [][BWNext]_vars

\* the epoch store before its first request; no buffered writer
ESInitial ==
  /\ BWIdle
  /\ RouterIdle /\ SelectorIdle /\ SenderIdle /\ ReaderIdle
  /\ MoreIdle
  /\ zk \in ZkStates
  /\ reqs = <<>>
  /\ store \in [shutting_down : {FALSE}, closed : {FALSE},
                zk_create_root_znodes : BOOLEAN, failures : {0},
                err : {"none"}, invalid_calls : {0}, aborted : {FALSE}]
  /\ (zk.root => store.zk_create_root_znodes)

\* the epoch store of a log, with its Zookeeper service
SpecEpochStore == ESInitial /\ [][ESNext]_vars

\* the epoch store with a Zookeeper client that runs the callback of every
\* operation it was given, as long as it is not closed
SpecEpochStoreFair ==
  /\ ESInitial
  /\ [][ESNext]_vars
  /\ WF_vars(MultiOpComplete)
  /\ WF_vars(CreateRootComplete)

(***************************************************************************)
(* SequencerRouter, as the tests of SequencerRouterTest drive it: the       *)
(* handler of the test records the node the next message goes to           *)
(* (onSequencerKnown) and the status of the whole operation                *)
(* (onSequencerRoutingFailure).                                            *)
(***************************************************************************)
RouterNodes == 0..(NumRouterNodes - 1)

\* NodeID(): no node
InvalidNode == -1

\* SequencerRouter::flags_t
NoFlags == {}

FORCE_REACTIVATION == {"FORCE_REACTIVATION"}

\* StaticLocator(N0): locateSequencer() answers OK with the same node always
StaticLocator == 0

NoReply == [from |-> InvalidNode, status |-> "none"]

RouterInitial ==
  [op |-> [name |-> "created"],
   next_node |-> [dest |-> InvalidNode, flags |-> NoFlags],
   status |-> "UNKNOWN",
   last_reply |-> NoReply,
   retries |-> [n \in RouterNodes |-> 0],
   reactivated |-> {}, unavailable |-> {}, dead |-> {},
   sent |-> <<>>, done |-> FALSE]

\* Handler::onSequencerKnown(dest, flags); `sent' is the history of the calls
sendTo(r, dest, flags) ==
  [r EXCEPT !.next_node = [dest |-> dest, flags |-> flags],
            !.sent = Append(@, [dest |-> dest, flags |-> flags])]

\* Handler::onSequencerRoutingFailure(status)
onFailure(r, status) == [r EXCEPT !.status = status]

\* SequencerRouter::start(): ask the locator; a node known to be unavailable
\* is not tried again
start(r, status) ==
  IF StaticLocator \in r.unavailable
  THEN onFailure(r, status)
  ELSE sendTo([r EXCEPT !.last_reply = NoReply], StaticLocator, NoFlags)

\* a router that forces a reactivation as often as it is asked to
onRedirected_reactivateAgain(r, from, to, status) ==
  IF status = "PREEMPTED" /\ to = InvalidNode
  THEN sendTo([r EXCEPT !.reactivated = @ \cup {from}, !.last_reply = NoReply],
              from, FORCE_REACTIVATION)
  ELSE sendTo([r EXCEPT !.last_reply = [from |-> from, status |-> status]],
              to, NoFlags)

\* SequencerRouter::onRedirected(from, to, status): `from' answered
\* REDIRECTED or PREEMPTED naming `to'; NodeID() for `to' says that the
\* preempting node is dead
onRedirected(r, from, to, status) ==
  IF status = "PREEMPTED" /\ to = InvalidNode
  THEN IF from \in r.reactivated
       THEN onFailure(r, "NOSEQUENCER")
       ELSE sendTo([r EXCEPT !.reactivated = @ \cup {from},
                             !.last_reply = NoReply],
                   from, FORCE_REACTIVATION)
  ELSE sendTo([r EXCEPT !.last_reply = [from |-> from, status |-> status]],
              to, NoFlags)

\* a router that goes back to the redirecting node every time
onNodeUnavailable_retryAgain(r, node, status) ==
  LET u == [r EXCEPT !.unavailable = @ \cup {node}] IN
  IF u.last_reply.from = InvalidNode
  THEN start(u, status)
  ELSE sendTo([u EXCEPT !.retries[u.last_reply.from] = @ + 1,
                        !.last_reply = NoReply],
              u.last_reply.from,
              IF u.last_reply.status = "PREEMPTED" THEN NoFlags
              ELSE FORCE_REACTIVATION)

\* SequencerRouter::onNodeUnavailable(node, status): the node the last
\* message went to cannot serve the request
onNodeUnavailable(r, node, status) ==
  LET u == [r EXCEPT !.unavailable = @ \cup {node}] IN
  IF u.last_reply.from = InvalidNode
  THEN start(u, status)
  ELSE IF u.retries[u.last_reply.from] > 0
  THEN onFailure(u, status)
  ELSE sendTo([u EXCEPT !.retries[u.last_reply.from] = @ + 1,
                        !.last_reply = NoReply],
              u.last_reply.from,
              IF u.last_reply.status = "PREEMPTED" THEN NoFlags
              ELSE FORCE_REACTIVATION)

\* SequencerRouter::onDeadNode(node, status)
onDeadNode(r, node, status) == [r EXCEPT !.dead = @ \cup {node}]

\* a message is on its way to next_node and the request is not over
RouterWaits ==
  /\ router.op.name # "idle"
  /\ router.status = "UNKNOWN"
  /\ ~router.done
  /\ router.next_node.dest # InvalidNode

\* the router may send one more message
RouterMaySend == Len(router.sent) < MaxHops

\* createRouter(); router->start()
RouterStart ==
  /\ router.op.name = "created"
  /\ router' = [start(router, "UNKNOWN") EXCEPT !.op = [name |-> "start"]]
  /\ UNCHANGED <<bwVars, esVars, moreVars, selector, sender, reader>>

\* the node answers with a redirect to another node
RouterRedirected ==
  /\ RouterWaits
  /\ RouterMaySend
  /\ \E to \in RouterNodes \ {router.next_node.dest},
        status \in {"REDIRECTED", "PREEMPTED"} :
       router' = [onRedirected(router, router.next_node.dest, to, status)
                    EXCEPT !.op = [name |-> "onRedirected",
                                   from |-> router.next_node.dest,
                                   to |-> to, status |-> status]]
  /\ UNCHANGED <<bwVars, esVars, moreVars, selector, sender, reader>>

\* the node answers PREEMPTED with REDIRECT_NOT_ALIVE: the request calls
\* onDeadNode(N1, E::DISABLED) and onRedirected(N0, NodeID(), E::PREEMPTED)
RouterPreemptedByDeadNode ==
  /\ RouterWaits
  /\ RouterMaySend
  /\ \E n \in RouterNodes \ {router.next_node.dest} :
       router' = [onRedirected(onDeadNode(router, n, "DISABLED"),
                               router.next_node.dest, InvalidNode, "PREEMPTED")
                    EXCEPT !.op = [name |-> "onRedirected",
                                   from |-> router.next_node.dest,
                                   to |-> InvalidNode, status |-> "PREEMPTED"]]
  /\ UNCHANGED <<bwVars, esVars, moreVars, selector, sender, reader>>

\* the node cannot be reached, or is not ready
RouterNodeUnavailable ==
  /\ RouterWaits
  /\ RouterMaySend
  /\ \E status \in {"CONNFAILED", "NOTREADY"} :
       router' = [onNodeUnavailable(router, router.next_node.dest, status)
                    EXCEPT !.op = [name |-> "onNodeUnavailable",
                                   node |-> router.next_node.dest,
                                   status |-> status,
                                   via |-> router.last_reply]]
  /\ UNCHANGED <<bwVars, esVars, moreVars, selector, sender, reader>>

\* the node serves the request
RouterDone ==
  /\ RouterWaits
  /\ router' = [router EXCEPT !.done = TRUE, !.op = [name |-> "done"]]
  /\ UNCHANGED <<bwVars, esVars, moreVars, selector, sender, reader>>

RouterNext ==
  \/ RouterStart
  \/ RouterRedirected
  \/ RouterPreemptedByDeadNode
  \/ RouterNodeUnavailable
  \/ RouterDone

RouterInit ==
  /\ BWIdle
  /\ ESIdle
  /\ SelectorIdle /\ SenderIdle /\ ReaderIdle
  /\ MoreIdle
  /\ router = RouterInitial

\* the router of one request
SpecSequencerRouter == RouterInit /\ [][RouterNext]_vars

(***************************************************************************)
(* RandomNodeSelector::select, as its tests call and validate it.  A       *)
(* NodeSourceSet is handed over as the sequence in which it is iterated.    *)
(***************************************************************************)
SelectorNodes == 0..(NumSelectorNodes - 1)

\* params.num_required and params.num_extras
MaxRequired == NumSelectorNodes - 2

MaxExtras == NumSelectorNodes - 3

\* folly::Optional<u_int32_t> seed: folly::none or a number
NoSeed == -1

Seeds == {NoSeed, 0, 1}

\* ClusterState* filter: nullptr, or the set of the nodes that are alive
NoFilter == [set |-> FALSE, alive |-> {}]

Filters ==
  {NoFilter} \cup {[set |-> TRUE, alive |-> SelectorNodes \ {n}] :
                     n \in SelectorNodes \ {0, 1}}

\* orders in which the elements of a set can be met: ascending, descending,
\* and ascending from the second element on
RECURSIVE Ascending(_)
Ascending(S) ==
  IF S = {} THEN <<>>
  ELSE LET m == CHOOSE x \in S : \A y \in S : x <= y
       IN <<m>> \o Ascending(S \ {m})

Reverse(q) == [i \in 1..Len(q) |-> q[Len(q) + 1 - i]]

Rotate(q, k) ==
  IF q = <<>> THEN q
  ELSE [i \in 1..Len(q) |-> q[((i - 1 + k) % Len(q)) + 1]]

Orders(S) == {Ascending(S), Reverse(Ascending(S)), Rotate(Ascending(S), 1)}

\* canPick(params, n)
canPick(p, n) ==
  /\ n \in Range(p.candidates)
  /\ n \notin p.existing
  /\ n \notin p.blacklist
  /\ (~p.filter.set \/ n \in p.filter.alive)

\* a selector that takes the nodes in the order it meets them
sortNodes_asMet(q) == q

\* the nodes of q in ascending order
sortNodes(q) == Ascending(Range(q))

\* a selector for which a graylisted node is as good as any other
filterCandidates_graylistIgnored(p, graylisted) ==
  LET Test(n) == canPick(p, n)
  IN IF graylisted THEN <<>> ELSE SelectSeq(p.candidates, Test)

\* the candidates that can be picked, graylisted ones or the others
filterCandidates(p, graylisted) ==
  LET Test(n) == canPick(p, n) /\ ((n \in p.graylist) <=> graylisted)
  IN SelectSeq(p.candidates, Test)

\* k nodes of q (all of them if there are fewer), picked by the random
\* number rnd
randomlySelectNodes(q, k, rnd) ==
  LET s == Rotate(sortNodes(q), rnd)
  IN {s[i] : i \in 1..(IF k < Len(s) THEN k ELSE Len(s))}

\* a selector that returns what it found, however few
selectionOrNothing_any(picked, num_required) == picked

\* the selection fails when fewer than num_required nodes were found
selectionOrNothing(picked, num_required) ==
  IF Cardinality(picked) < num_required THEN {} ELSE picked

\* RandomNodeSelector::select(candidates, existing, blacklist, graylist,
\* num_required, num_extras, seed, filter), rnd being the random number the
\* seed gives: num_required + num_extras nodes that are not graylisted if
\* there are so many, graylisted ones for the rest
select(p, rnd) ==
  LET target == p.num_required + p.num_extras
      first == randomlySelectNodes(filterCandidates(p, FALSE), target, rnd)
      second == randomlySelectNodes(filterCandidates(p, TRUE),
                                    target - Cardinality(first), rnd)
  IN selectionOrNothing(first \cup second, p.num_required)

\* SelectionParams: all the nodes or all but one are candidates, node 0 may
\* be an existing one, node 1 may be blacklisted, the other nodes may be
\* graylisted or dead
SelectionParams ==
  [candidates : UNION {Orders(S) : S \in {C \in SUBSET SelectorNodes :
                                             Cardinality(C) >= NumSelectorNodes - 1}},
   existing : SUBSET {0},
   blacklist : SUBSET {1},
   graylist : SUBSET (SelectorNodes \ {0, 1}),
   num_required : 1..MaxRequired,
   num_extras : 0..MaxExtras,
   seed : Seeds,
   filter : Filters]

\* the random numbers a seed can give: one for a seed, any for folly::none
RandomNumbers(seed) == IF seed = NoSeed THEN SelectorNodes ELSE {seed}

\* auto result = RandomNodeSelector::select(...)
SelectorSelect ==
  /\ selector.op = "params"
  /\ \E rnd \in RandomNumbers(selector.params.seed) :
       selector' = [selector EXCEPT !.op = "selected",
                                    !.result = select(selector.params, rnd)]
  /\ UNCHANGED <<bwVars, esVars, moreVars, router, sender, reader>>

\* the candidates are shuffled and selected from again, with the same seed
SelectorSelectShuffled ==
  /\ selector.op = "selected"
  /\ selector.params.seed # NoSeed
  /\ \E order \in Orders(Range(selector.params.candidates)) :
       selector' = [selector EXCEPT
         !.op = "shuffled",
         !.shuffled = order,
         !.result_shuffled =
            select([selector.params EXCEPT !.candidates = order],
                   selector.params.seed)]
  /\ UNCHANGED <<bwVars, esVars, moreVars, router, sender, reader>>

SelectorNext ==
  \/ SelectorSelect
  \/ SelectorSelectShuffled

SelectorInit ==
  /\ BWIdle
  /\ ESIdle
  /\ RouterIdle /\ SenderIdle /\ ReaderIdle
  /\ MoreIdle
  /\ selector \in [op : {"params"}, params : SelectionParams,
                   result : {{}}, shuffled : {<<>>}, result_shuffled : {{}}]

\* one selection, and one more from the shuffled candidates
SpecNodeSelector == SelectorInit /\ [][SelectorNext]_vars

(***************************************************************************)
(* Sender: the connections of one worker and their on-close callbacks.     *)
(* There is one server node and up to MaxConns Connection objects; the     *)
(* ClientID of a client connection is the index of its object.  A          *)
(* Connection object is in a map of the Sender ("map"), moved out of the   *)
(* server map and waiting for its deferred close ("deferred"), or          *)
(* destroyed ("gone").  The Connection class itself is not part of the     *)
(* sources at hand: close() does nothing on a closed connection and        *)
(* otherwise unlinks and invokes every callback of the list in order,      *)
(* pushOnCloseCallback() links a callback at the end of the list, and the  *)
(* destructor closes the connection with E::SHUTDOWN.                      *)
(***************************************************************************)
ConnIds == 1..MaxConns
CallbackIds == 1..MaxCallbacks
DisconnectedClientCallback == 0
NoConn == [kind |-> "none", place |-> "none", closed |-> TRUE, on_close |-> <<>>]
NoCallback == [conn |-> 0, invoked |-> 0, status |-> "none"]

SenderInitial ==
  [conns |-> [c \in ConnIds |-> NoConn],
   server_conn |-> 0,
   disconnected_clients |-> <<>>,
   cbs |-> [cb \in CallbackIds |-> NoCallback],
   dcc |-> [c \in ConnIds |-> 0],
   shutting_down |-> FALSE]

client_conns(s) == {c \in ConnIds : s.conns[c].kind = "client" /\ s.conns[c].place = "map"}
server_conns(s) == IF s.server_conn = 0 THEN {} ELSE {s.server_conn}
FreeConns(s) == {c \in ConnIds : s.conns[c].place = "none"}
NewConn(s) == CHOOSE c \in FreeConns(s) : \A d \in FreeConns(s) : c <= d

\* Sender::noteDisconnectedClient; the worker is shutting down when its
\* Sender is.
noteDisconnectedClient(s, c) ==
  IF s.shutting_down THEN s
  ELSE IF c \notin client_conns(s) THEN s
  ELSE [s EXCEPT !.disconnected_clients = <<c>> \o @]

\* SocketCallback::operator() of the callback cb linked to connection c;
\* DisconnectedClientCallback::operator() for the callback of addClient().
invokeOnClose(s, c, cb, reason) ==
  IF cb = DisconnectedClientCallback
  THEN noteDisconnectedClient([s EXCEPT !.dcc[c] = @ + 1], c)
  ELSE [s EXCEPT !.cbs[cb].invoked = @ + 1, !.cbs[cb].status = reason]

RECURSIVE runOnClose(_, _, _)
runOnClose(s, c, reason) ==
  IF s.conns[c].on_close = <<>> THEN s
  ELSE runOnClose(invokeOnClose([s EXCEPT !.conns[c].on_close = Tail(@)],
                                c, Head(s.conns[c].on_close), reason),
                  c, reason)

\* Connection::close
close(s, c, reason) ==
  IF s.conns[c].closed THEN s
  ELSE runOnClose([s EXCEPT !.conns[c].closed = TRUE], c, reason)

\* Connection::pushOnCloseCallback
pushOnCloseCallback(s, c, cb) ==
  IF cb = DisconnectedClientCallback
  THEN [s EXCEPT !.conns[c].on_close = Append(@, cb)]
  ELSE [s EXCEPT !.conns[c].on_close = Append(@, cb), !.cbs[cb].conn = c]

\* Connection::~Connection
destroy(s, c) ==
  [close(s, c, "SHUTDOWN") EXCEPT !.conns[c].place = "gone",
                                  !.conns[c].on_close = <<>>]

RECURSIVE closeEach(_, _, _)
closeEach(s, cs, reason) ==
  IF cs = {} THEN s
  ELSE LET first == CHOOSE c \in cs : \A d \in cs : c <= d
       IN closeEach(close(s, first, reason), cs \ {first}, reason)

RECURSIVE destroyEach(_, _)
destroyEach(s, cs) ==
  IF cs = {} THEN s
  ELSE LET lowest == CHOOSE c \in cs : \A d \in cs : c <= d
       IN destroyEach(destroy(s, lowest), cs \ {lowest})

\* Sender::eraseDisconnectedClients; zombies are the connections that other
\* users still hold a reference to.
eraseDisconnectedClients(s, zombies) ==
  LET erased == {c \in Range(s.disconnected_clients) : c \notin zombies}
      kept == SelectSeq(s.disconnected_clients, LAMBDA c : c \in zombies)
  IN [destroyEach(s, erased) EXCEPT !.disconnected_clients = kept]

\* Sender::addClient
addClient(s, c, zombies) ==
  LET cleaned == eraseDisconnectedClients(s, zombies)
      created == [cleaned EXCEPT !.conns[c] =
                    [kind |-> "client", place |-> "map", closed |-> FALSE,
                     on_close |-> <<>>]]
  IN pushOnCloseCallback(created, c, DisconnectedClientCallback)

\* Sender::registerOnConnectionClosed, with any connection being accepted
registerOnConnectionClosed_closedAccepted(s, is_client, c, cb) ==
  IF is_client
  THEN IF c \notin client_conns(s)
       THEN s
       ELSE pushOnCloseCallback(s, c, cb)
  ELSE IF s.server_conn = 0
       THEN s
       ELSE pushOnCloseCallback(s, s.server_conn, cb)

\* Sender::registerOnConnectionClosed
registerOnConnectionClosed(s, is_client, c, cb) ==
  IF is_client
  THEN IF c \notin client_conns(s) \/ s.conns[c].closed
       THEN s
       ELSE pushOnCloseCallback(s, c, cb)
  ELSE IF s.server_conn = 0
       THEN s
       ELSE pushOnCloseCallback(s, s.server_conn, cb)

\* Sender::initServerConnection and the connect() of Sender::getConnection.
\* ssl_mismatch: the connection in the map is not the kind that is needed
\* now; connected: Connection::connect() succeeds.  The connection that is
\* replaced is handed to the worker, which closes it later.  The result is
\* the state and the connection, 0 for a null pointer.
getConnection(s, fresh, ssl_mismatch, connected) ==
  LET old == s.server_conn
      should_create_new == old # 0 /\ (s.conns[old].closed \/ ssl_mismatch)
      moved == IF should_create_new
               THEN [s EXCEPT !.conns[old].place = "deferred", !.server_conn = 0]
               ELSE s
      made == IF moved.server_conn = 0
              THEN [moved EXCEPT !.conns[fresh] =
                      [kind |-> "server", place |-> "map", closed |-> TRUE,
                       on_close |-> <<>>],
                                 !.server_conn = fresh]
              ELSE moved
      conn == made.server_conn
  IN IF made.conns[conn].closed
     THEN IF connected
          THEN [state |-> [made EXCEPT !.conns[conn].closed = FALSE], conn |-> conn]
          ELSE [state |-> made, conn |-> 0]
     ELSE [state |-> made, conn |-> conn]

\* Sender::sendMessageImpl to the server node with an onclose callback
sendMessageImpl(s, fresh, ssl_mismatch, connected, cb) ==
  LET got == getConnection(s, fresh, ssl_mismatch, connected)
  IN IF got.conn # 0
     THEN pushOnCloseCallback(got.state, got.conn, cb)
     ELSE got.state

\* The lambda that Sender::initServerConnection hands to the worker
closeReplaced(s, c) ==
  destroy(IF ~s.conns[c].closed THEN close(s, c, "SSLREQUIRED") ELSE s, c)

\* Sender::closeClientSocket, Sender::closeServerSocket
closeConnection(s, is_client, c, reason) ==
  IF is_client
  THEN IF c \notin client_conns(s)
       THEN s
       ELSE close(s, c, reason)
  ELSE IF s.server_conn = 0
       THEN s
       ELSE IF ~s.conns[s.server_conn].closed
            THEN close(s, s.server_conn, reason)
            ELSE s

\* Sender::noteConfigurationChanged, with the server node having changed
\* its address or generation
disconnectFromNodesThatChangedAddressOrGeneration(s) ==
  LET outdated == s.server_conn
      taken == [s EXCEPT !.server_conn = 0]
  IN destroy(close(taken, outdated, "NOTINCONFIG"), outdated)

\* Sender::cleanupConnections; slow are the connections whose socket has
\* been draining for too long and idle those nothing has used for too long.
cleanupConnections(s, slow, idle) ==
  LET timedout == closeEach(s, slow, "TIMEDOUT")
      idle_clients == {c \in idle : timedout.conns[c].kind = "client"
                                    /\ ~timedout.conns[c].closed}
  IN closeEach(timedout, idle_clients, "IDLE")

\* Sender::closeAllSockets
closeAllSockets(s) ==
  closeEach(s, {c \in client_conns(s) \cup server_conns(s) : ~s.conns[c].closed},
            "SHUTDOWN")

\* Sender::beginShutdown with Sender::flushOutputAndClose; flushed are the
\* connections that have nothing left to send and close at once.
beginShutdown(s, flushed) ==
  closeEach([s EXCEPT !.shutting_down = TRUE], flushed, "SHUTDOWN")

\* Sender::forceShutdown
forceShutdown(s) ==
  LET all == client_conns(s) \cup server_conns(s)
  IN [destroyEach(closeAllSockets(s), all) EXCEPT !.server_conn = 0]

InMaps(s) == client_conns(s) \cup server_conns(s)
OpenConns(s) == {c \in ConnIds : s.conns[c].place \in {"map", "deferred"}
                                 /\ ~s.conns[c].closed}
\* the callbacks no user has registered yet, and the next of them
UnusedCallbacks(s) == {cb \in CallbackIds : s.cbs[cb].conn = 0}
NewCallback(s) == CHOOSE cb \in UnusedCallbacks(s) : \A d \in UnusedCallbacks(s) : cb <= d
\* the addresses a caller names: a ClientID, or the server node
ServerNode == 0
Addresses == ConnIds \cup {ServerNode}

SenderAddClient ==
  /\ ~sender.shutting_down
  /\ FreeConns(sender) # {}
  /\ \E zombies \in SUBSET Range(sender.disconnected_clients) :
       sender' = addClient(sender, NewConn(sender), zombies)
  /\ UNCHANGED <<bwVars, esVars, moreVars, router, selector, reader>>

SenderRegisterOnConnectionClosed ==
  /\ UnusedCallbacks(sender) # {}
  /\ \E addr \in Addresses :
       sender' = registerOnConnectionClosed(sender, addr # ServerNode, addr,
                                            NewCallback(sender))
  /\ UNCHANGED <<bwVars, esVars, moreVars, router, selector, reader>>

SenderSendMessage ==
  /\ ~sender.shutting_down
  /\ FreeConns(sender) # {}
  /\ UnusedCallbacks(sender) # {}
  /\ \E ssl_mismatch \in BOOLEAN, connected \in BOOLEAN :
       sender' = sendMessageImpl(sender, NewConn(sender), ssl_mismatch,
                                 connected, NewCallback(sender))
  /\ UNCHANGED <<bwVars, esVars, moreVars, router, selector, reader>>

SenderCloseReplaced ==
  /\ \E c \in {d \in ConnIds : sender.conns[d].place = "deferred"} :
       sender' = closeReplaced(sender, c)
  /\ UNCHANGED <<bwVars, esVars, moreVars, router, selector, reader>>

\* The peer disconnects, or the connection fails or finishes flushing: the
\* Connection closes itself.
SenderPeerDisconnects ==
  /\ \E c \in OpenConns(sender) :
       sender' = close(sender, c, "PEER_CLOSED")
  /\ UNCHANGED <<bwVars, esVars, moreVars, router, selector, reader>>

SenderCloseConnection ==
  /\ \E addr \in Addresses :
       sender' = closeConnection(sender, addr # ServerNode, addr, "BADMSG")
  /\ UNCHANGED <<bwVars, esVars, moreVars, router, selector, reader>>

SenderConfigurationChanged ==
  /\ sender.server_conn # 0
  /\ sender' = disconnectFromNodesThatChangedAddressOrGeneration(sender)
  /\ UNCHANGED <<bwVars, esVars, moreVars, router, selector, reader>>

SenderCleanupConnections ==
  /\ \E slow \in SUBSET InMaps(sender) :
       \E idle \in SUBSET (InMaps(sender) \ slow) :
         /\ slow \cup idle # {}
         /\ sender' = cleanupConnections(sender, slow, idle)
  /\ UNCHANGED <<bwVars, esVars, moreVars, router, selector, reader>>

SenderBeginShutdown ==
  /\ ~sender.shutting_down
  /\ \E flushed \in SUBSET (InMaps(sender) \cap OpenConns(sender)) :
       sender' = beginShutdown(sender, flushed)
  /\ UNCHANGED <<bwVars, esVars, moreVars, router, selector, reader>>

SenderForceShutdown ==
  /\ sender.shutting_down
  /\ sender' = forceShutdown(sender)
  /\ UNCHANGED <<bwVars, esVars, moreVars, router, selector, reader>>

SenderNext ==
  \/ SenderAddClient
  \/ SenderRegisterOnConnectionClosed
  \/ SenderSendMessage
  \/ SenderCloseReplaced
  \/ SenderPeerDisconnects
  \/ SenderCloseConnection
  \/ SenderConfigurationChanged
  \/ SenderCleanupConnections
  \/ SenderBeginShutdown
  \/ SenderForceShutdown

SenderInit ==
  /\ BWIdle
  /\ ESIdle
  /\ RouterIdle /\ SelectorIdle /\ ReaderIdle
  /\ MoreIdle
  /\ sender = SenderInitial

\* the Sender of one worker
SpecSender == SenderInit /\ [][SenderNext]_vars

(***************************************************************************)
(* The read streams of one worker and StopReadingRequest.  The worker      *)
(* keeps its read streams in a map by read stream id and runs requests     *)
(* and message handlers one at a time.  ClientReadStream and the map are   *)
(* not part of the sources at hand: a stream is created with a sub-stream  *)
(* to every storage node, a RECORD or GAP message is handed to the stream  *)
(* found under its id and dropped when there is none, a stream that        *)
(* reaches its end reports done and leaves the map, and erasing a stream   *)
(* closes its sub-streams.                                                 *)
(***************************************************************************)
StreamIds == 1..MaxStreams
StorageNodes == 1..NumStorageNodes
NoStop == [posted |-> FALSE, has_callback |-> FALSE, executed |-> FALSE,
           found |-> FALSE, called_back |-> FALSE]

ReaderInitial ==
  [streams |-> {},
   started |-> {},
   substreams |-> [id \in StreamIds |-> {}],
   emitted |-> [id \in StreamIds |-> <<>>],
   dropped |-> [id \in StreamIds |-> 0],
   stop |-> [id \in StreamIds |-> NoStop]]

\* StartReadingRequest::execute: the stream enters the map
startReading(r, id) ==
  [r EXCEPT !.streams = @ \cup {id}, !.started = @ \cup {id},
            !.substreams[id] = StorageNodes]

\* a RECORD or GAP message of stream id arrives from a storage node
onMessage(r, id, kind) ==
  IF id \in r.streams
  THEN [r EXCEPT !.emitted[id] = Append(@, kind)]
  ELSE [r EXCEPT !.dropped[id] = @ + 1]

\* the stream delivers its last record: done callback, and it leaves the map
onReachedEnd(r, id) ==
  [r EXCEPT !.emitted[id] = Append(@, "done"), !.streams = @ \ {id},
            !.substreams[id] = {}]

\* AllClientReadStreams::erase: the stream is destroyed, with its sub-streams
erase(r, id) ==
  [r EXCEPT !.streams = @ \ {id}, !.substreams[id] = {}]

\* StopReadingRequest::execute without the erase
execute_streamKept(r, id) ==
  [r EXCEPT !.stop[id].executed = TRUE,
            !.stop[id].found = id \in r.streams,
            !.stop[id].called_back = r.stop[id].has_callback]

\* StopReadingRequest::execute
execute(r, id) ==
  LET found == id \in r.streams
      erased == erase(r, id)
  IN [erased EXCEPT !.stop[id].executed = TRUE,
                    !.stop[id].found = found,
                    !.stop[id].called_back = r.stop[id].has_callback]

\* messages of stream id the model still lets arrive
MayArrive(r, id) == Len(r.emitted[id]) + r.dropped[id] < MaxMessages

ReaderStartReading ==
  /\ \E id \in StreamIds \ reader.started :
       /\ \A other \in StreamIds : other < id => other \in reader.started
       /\ reader' = startReading(reader, id)
  /\ UNCHANGED <<bwVars, esVars, moreVars, router, selector, sender>>

ReaderMessage ==
  /\ \E id \in reader.started, kind \in {"record", "gap"} :
       /\ MayArrive(reader, id)
       /\ reader' = onMessage(reader, id, kind)
  /\ UNCHANGED <<bwVars, esVars, moreVars, router, selector, sender>>

ReaderReachesEnd ==
  /\ \E id \in reader.streams :
       /\ MayArrive(reader, id)
       /\ reader' = onReachedEnd(reader, id)
  /\ UNCHANGED <<bwVars, esVars, moreVars, router, selector, sender>>

\* the client asks for the stream to be stopped: a StopReadingRequest is
\* posted to the worker, with or without a callback
ReaderPostStop ==
  /\ \E id \in reader.started, has_callback \in BOOLEAN :
       /\ ~reader.stop[id].posted
       /\ reader' = [reader EXCEPT !.stop[id].posted = TRUE,
                                   !.stop[id].has_callback = has_callback]
  /\ UNCHANGED <<bwVars, esVars, moreVars, router, selector, sender>>

ReaderExecuteStop ==
  /\ \E id \in StreamIds :
       /\ reader.stop[id].posted
       /\ ~reader.stop[id].executed
       /\ reader' = execute(reader, id)
  /\ UNCHANGED <<bwVars, esVars, moreVars, router, selector, sender>>

ReaderNext ==
  \/ ReaderStartReading
  \/ ReaderMessage
  \/ ReaderReachesEnd
  \/ ReaderPostStop
  \/ ReaderExecuteStop

ReaderInit ==
  /\ BWIdle
  /\ ESIdle
  /\ RouterIdle /\ SelectorIdle /\ SenderIdle
  /\ MoreIdle
  /\ reader = ReaderInitial

\* the read streams of one worker
SpecReadStream == ReaderInit /\ [][ReaderNext]_vars

(***************************************************************************)
(* GetTrimPointRequest, as its test drives it: every reply of a storage    *)
(* node is handed to updateTrimPoint() with its status and trim point.     *)
(***************************************************************************)
LSN_INVALID == 0
TrimPoints == LSN_INVALID..MaxTrimPoint
ReplyStatuses == {"OK", "SHUTDOWN", "NOTSUPPORTED"}

\* MockGetTrimPointRequest::updateTrimPoint, whatever the status
updateTrimPoint_anyStatus(trim_point_, status, trim_point) ==
  IF trim_point > trim_point_ THEN trim_point ELSE trim_point_

\* MockGetTrimPointRequest::updateTrimPoint
updateTrimPoint(trim_point_, status, trim_point) ==
  IF status = "OK" /\ trim_point > trim_point_ THEN trim_point ELSE trim_point_

\* GetTrimPointRequest::onReply
onReply(t, status, trim_point) ==
  [trim_point_ |-> updateTrimPoint(t.trim_point_, status, trim_point),
   replies |-> Append(t.replies, [status |-> status, trim_point |-> trim_point])]

TrimOnReply ==
  /\ Len(trim.replies) < MaxReplies
  /\ \E status \in ReplyStatuses, trim_point \in TrimPoints :
       trim' = onReply(trim, status, trim_point)
  /\ UNCHANGED <<bwVars, esVars, router, selector, sender, reader,
                 stuck, overrides, cluster>>

TrimNext == TrimOnReply

TrimInit ==
  /\ BWIdle
  /\ ESIdle
  /\ RouterIdle /\ SelectorIdle /\ SenderIdle /\ ReaderIdle
  /\ StuckIdle /\ OverridesIdle /\ ClusterIdle
  /\ trim = [trim_point_ |-> LSN_INVALID, replies |-> <<>>]

\* one GetTrimPointRequest and its replies
SpecGetTrimPoint == TrimInit /\ [][TrimNext]_vars

(***************************************************************************)
(* Reader::nextFromLsnWhenStuck, as its test calls it.  An LSN is an epoch *)
(* and a sequence number within the epoch, packed into one integer.  The   *)
(* function itself is not part of the sources at hand; it is what the      *)
(* expectations of the test determine, and its description elsewhere.      *)
(***************************************************************************)
ESN_MIN == 1
EPOCH_MIN == 1
compose_lsn(epoch, esn) == epoch * (ESN_MAX + 1) + esn
lsn_to_epoch(lsn) == lsn \div (ESN_MAX + 1)
lsn_to_esn(lsn) == lsn % (ESN_MAX + 1)
LSN_OLDEST == compose_lsn(EPOCH_MIN, ESN_MIN)
LSN_MAX == compose_lsn(EPOCH_MAX, ESN_MAX)
Lsns == 0..LSN_MAX

\* the tail is not known: the beginning of the next epoch, in the width of
\* an epoch and with no check for the last epoch
stuckWithoutTail_overflowing(stuck_lsn) ==
  compose_lsn((lsn_to_epoch(stuck_lsn) + 1) % (EPOCH_MAX + 1), ESN_MIN)

\* the tail is not known: the beginning of the next epoch, if there is one
stuckWithoutTail(stuck_lsn) ==
  IF lsn_to_epoch(stuck_lsn) < EPOCH_MAX
  THEN compose_lsn(lsn_to_epoch(stuck_lsn) + 1, ESN_MIN)
  ELSE stuck_lsn

\* the tail is known: the beginning of the tail epoch, wherever the reader is
stuckWithTail_toTailEpoch(stuck_lsn, tail_lsn) ==
  compose_lsn(lsn_to_epoch(tail_lsn), ESN_MIN)

\* the tail is known: the beginning of the tail epoch, unless the reader is
\* in it already or past it
stuckWithTail(stuck_lsn, tail_lsn) ==
  IF lsn_to_epoch(stuck_lsn) < lsn_to_epoch(tail_lsn)
  THEN compose_lsn(lsn_to_epoch(tail_lsn), ESN_MIN)
  ELSE stuck_lsn

\* Reader::nextFromLsnWhenStuck
nextFromLsnWhenStuck(stuck_lsn, tail_lsn) ==
  IF stuck_lsn = LSN_INVALID /\ tail_lsn = LSN_INVALID THEN LSN_OLDEST
  ELSE IF tail_lsn = LSN_INVALID THEN stuckWithoutTail(stuck_lsn)
  ELSE stuckWithTail(stuck_lsn, tail_lsn)

StuckCall ==
  /\ stuck.op = "stuck"
  /\ stuck' = [stuck EXCEPT !.op = "next",
                            !.next = nextFromLsnWhenStuck(stuck.stuck_lsn,
                                                          stuck.tail_lsn)]
  /\ UNCHANGED <<bwVars, esVars, router, selector, sender, reader,
                 trim, overrides, cluster>>

StuckNext == StuckCall

StuckInit ==
  /\ BWIdle
  /\ ESIdle
  /\ RouterIdle /\ SelectorIdle /\ SenderIdle /\ ReaderIdle
  /\ TrimIdle /\ OverridesIdle /\ ClusterIdle
  /\ stuck \in [op : {"stuck"}, stuck_lsn : Lsns, tail_lsn : Lsns,
                next : {LSN_INVALID}]

\* one call of nextFromLsnWhenStuck for every pair of LSNs
SpecNextFromLsn == StuckInit /\ [][StuckNext]_vars

(***************************************************************************)
(* Setting overrides with a TTL.  applySettingOverride sets the override   *)
(* of one setting and starts a SettingOverrideTTLRequest, which unsets the *)
(* setting when its timer fires.  Only the header of the request is part   *)
(* of the sources at hand: the request of a setting is registered under    *)
(* the name of the setting, and registering a request destroys the one     *)
(* that was registered before, with its timer.  Timers fire on time.       *)
(***************************************************************************)
NoOverride == "none"
OverrideValues == {"30min", "10min"}
Ttls == 1..MaxTtl

OverridesInitial == [now |-> 0, override |-> NoOverride, requests |-> <<>>]

\* SettingOverrideTTLRequest::registerRequest, the earlier request being
\* left as it is
registerRequest_earlierKept(o, request) ==
  [o EXCEPT !.requests = Append(@, request)]

\* SettingOverrideTTLRequest::registerRequest
registerRequest(o, request) ==
  [o EXCEPT !.requests =
     Append([i \in DOMAIN @ |-> [@[i] EXCEPT !.active = FALSE]], request)]

\* SettingOverrideTTLRequest::execute with setupTimer
executeTTLRequest(o, ttl) ==
  registerRequest(o, [deadline |-> o.now + ttl, active |-> TRUE])

\* applySettingOverride of the admin API
applySettingOverride(o, value, ttl) ==
  executeTTLRequest([o EXCEPT !.override = value], ttl)

\* SettingOverrideTTLRequest::onTimeout of request i, and destroy
onTimeout(o, i) ==
  [o EXCEPT !.override = NoOverride, !.requests[i].active = FALSE]

\* the requests whose timer is due
Due(o) == {i \in DOMAIN o.requests :
             o.requests[i].active /\ o.requests[i].deadline <= o.now}

OverrideApply ==
  /\ Len(overrides.requests) < MaxApplies
  /\ Due(overrides) = {}
  /\ \E value \in OverrideValues, ttl \in Ttls :
       /\ overrides.now + ttl <= MaxTime
       /\ overrides' = applySettingOverride(overrides, value, ttl)
  /\ UNCHANGED <<bwVars, esVars, router, selector, sender, reader,
                 trim, stuck, cluster>>

OverrideTimeout ==
  /\ \E i \in Due(overrides) : overrides' = onTimeout(overrides, i)
  /\ UNCHANGED <<bwVars, esVars, router, selector, sender, reader,
                 trim, stuck, cluster>>

OverrideTick ==
  /\ overrides.now < MaxTime
  /\ Due(overrides) = {}
  /\ overrides' = [overrides EXCEPT !.now = @ + 1]
  /\ UNCHANGED <<bwVars, esVars, router, selector, sender, reader,
                 trim, stuck, cluster>>

OverrideNext ==
  \/ OverrideApply
  \/ OverrideTimeout
  \/ OverrideTick

OverrideInit ==
  /\ BWIdle
  /\ ESIdle
  /\ RouterIdle /\ SelectorIdle /\ SenderIdle /\ ReaderIdle
  /\ TrimIdle /\ StuckIdle /\ ClusterIdle
  /\ overrides = OverridesInitial

\* the overrides of one setting; time passes and timers that are due fire
SpecSettingOverride ==
  /\ OverrideInit
  /\ [][OverrideNext]_vars
  /\ WF_vars(OverrideTick)
  /\ WF_vars(OverrideTimeout)

(***************************************************************************)
(* A cluster with failure domains, as ThreeRackReplication sets it up: 11  *)
(* nodes in 4 racks, a log replicated across 3 racks, a nodeset of 8.      *)
(* The servers are not part of the sources at hand: an append succeeds     *)
(* when its copyset can be stored on nodes of the nodeset that are up, in  *)
(* as many different racks as the log replicates across; a reader makes    *)
(* progress when the nodes that are down cannot hold a whole copyset.      *)
(***************************************************************************)
rack_start == <<0, 4, 7, 9, 11>>
Racks == 1..(Len(rack_start) - 1)
ClusterNodes == 0..(rack_start[Len(rack_start)] - 1)
RackOf(n) == CHOOSE r \in Racks : rack_start[r] <= n /\ n < rack_start[r + 1]
NodesOf(r) == {n \in ClusterNodes : RackOf(n) = r}
replicateAcross == 3
nodeSetSize == 8
\* the nodeset of the log: as many nodes of every rack
NodeSet == {n \in ClusterNodes : n - rack_start[RackOf(n)] < nodeSetSize \div Cardinality(Racks)}

UpNodes(c) == {n \in ClusterNodes : RackOf(n) \notin c.down}

\* a set of nodes can hold the copies of one record, racks not looked at
isCopyset_anyRacks(nodes) ==
  /\ nodes \subseteq NodeSet
  /\ Cardinality(nodes) = replicateAcross

\* a set of nodes can hold the copies of one record
isCopyset(nodes) ==
  /\ nodes \subseteq NodeSet
  /\ Cardinality(nodes) = replicateAcross
  /\ \A m \in nodes, n \in nodes : m # n => RackOf(m) # RackOf(n)

Copysets == {nodes \in SUBSET NodeSet : isCopyset(nodes)}

\* the copysets an appender can store now
Storable(c) == {nodes \in Copysets : nodes \subseteq UpNodes(c)}

\* the reader has an answer from enough nodes: no copyset fits into the
\* nodes that are down
canRead(c) == \A nodes \in Copysets : nodes \cap UpNodes(c) # {}

ClusterInitial ==
  [down |-> {}, records |-> {}, last |-> "none", failed |-> FALSE]

\* the racks that hold the copies of a record
RacksOfCopyset(copyset) == {RackOf(n) : n \in copyset}

\* a record with copies in these racks has a copy on a node that is up
hasCopyUp(c, racks) == racks \ c.down # {}

\* client->appendSync: stored on a copyset, or timed out; a record is kept
\* as the racks its copies are in
appendSync(c, copyset) ==
  IF Storable(c) = {}
  THEN [c EXCEPT !.last = "append failed", !.failed = TRUE]
  ELSE [c EXCEPT !.records = @ \cup {RacksOfCopyset(copyset)},
                 !.last = "appended"]

\* read_records: every record written so far is read back, or the reader
\* times out
read_records(c) ==
  IF canRead(c) /\ \A racks \in c.records : hasCopyUp(c, racks)
  THEN [c EXCEPT !.last = "read"]
  ELSE [c EXCEPT !.last = "read failed"]

ClusterAppend ==
  /\ Cardinality(cluster.records) < MaxRecords
  /\ \E copyset \in (IF Storable(cluster) = {} THEN {{}} ELSE Storable(cluster)) :
       cluster' = appendSync(cluster, copyset)
  /\ UNCHANGED <<bwVars, esVars, router, selector, sender, reader,
                 trim, stuck, overrides>>

ClusterRead ==
  /\ cluster.records # {}
  /\ cluster' = read_records(cluster)
  /\ UNCHANGED <<bwVars, esVars, router, selector, sender, reader,
                 trim, stuck, overrides>>

ClusterShutdownRack ==
  /\ \E r \in Racks \ cluster.down :
       cluster' = [cluster EXCEPT !.down = @ \cup {r}, !.last = "rack down"]
  /\ UNCHANGED <<bwVars, esVars, router, selector, sender, reader,
                 trim, stuck, overrides>>

ClusterStartRack ==
  /\ \E r \in cluster.down :
       cluster' = [cluster EXCEPT !.down = @ \ {r}, !.last = "rack up"]
  /\ UNCHANGED <<bwVars, esVars, router, selector, sender, reader,
                 trim, stuck, overrides>>

ClusterNext ==
  \/ ClusterAppend
  \/ ClusterRead
  \/ ClusterShutdownRack
  \/ ClusterStartRack

ClusterInit ==
  /\ BWIdle
  /\ ESIdle
  /\ RouterIdle /\ SelectorIdle /\ SenderIdle /\ ReaderIdle
  /\ TrimIdle /\ StuckIdle /\ OverridesIdle
  /\ cluster = ClusterInitial

\* the cluster of the test, its racks going down and coming back
SpecFailureDomains == ClusterInit /\ [][ClusterNext]_vars

(***************************************************************************)
(* Sender: the connection to one server node under configuration and       *)
(* settings changes.  nodes_ is what the Sender's NodesConfiguration says  *)
(* about the node; cross_boundary and authentication are the two reasons   *)
(* of Sender::useSSLWith for TLS towards it.  A Connection remembers the   *)
(* generation and the address it was created for.  Of the Connection class *)
(* (not part of the sources at hand): close() fails the messages that are  *)
(* queued, connect() opens a closed connection, and                        *)
(* isNodeConnectionAddressOrGenerationOutdated() compares the connection   *)
(* with the current configuration.                                         *)
(***************************************************************************)
Generations == 1..MaxGeneration
NodeAddresses == {"addr1", "addr2"}
NotInConfig == [in_config |-> FALSE, generation |-> 0, address |-> "none"]
NodeConfigs ==
  {NotInConfig} \cup
  [in_config : {TRUE}, generation : Generations, address : NodeAddresses]
NoServerConn ==
  [place |-> "none", closed |-> TRUE, generation |-> 0, address |-> "none",
   ssl |-> FALSE, queued |-> FALSE, reason |-> "none"]

ServerSenderInitial ==
  [nodes_ |-> [in_config |-> TRUE, generation |-> 1, address |-> "addr1"],
   cross_boundary |-> FALSE,
   authentication |-> FALSE,
   conns |-> [c \in ConnIds |-> NoServerConn],
   server_conn |-> 0,
   sent_on |-> 0]

\* Sender::useSSLWith
useSSLWith(s) == s.cross_boundary \/ s.authentication

\* Connection::isNodeConnectionAddressOrGenerationOutdated
isNodeConnectionAddressOrGenerationOutdated(s, c) ==
  \/ ~s.nodes_.in_config
  \/ s.conns[c].generation # s.nodes_.generation
  \/ s.conns[c].address # s.nodes_.address

\* A connection that initServerConnection has moved out of the map: nothing
\* looks at the node it was created for any more
movedOut(conn) ==
  [conn EXCEPT !.place = "deferred", !.generation = 0, !.address = "none"]

\* Connection::~Connection: what is left of a connection is the reason of
\* its close
destroyed(conn) == [NoServerConn EXCEPT !.place = "gone", !.reason = conn.reason]

\* Connection::close on the connection to the server node
closeServerConn(s, c, reason) ==
  IF s.conns[c].closed THEN s
  ELSE [s EXCEPT !.conns[c].closed = TRUE, !.conns[c].queued = FALSE,
                 !.conns[c].reason = reason]

\* Sender::initServerConnection for a data connection, a plaintext
\* connection being kept when TLS is needed
initServerConnection_plaintextKept(s, nid_generation, fresh) ==
  LET old == s.server_conn
      should_create_new == old # 0 /\ s.conns[old].closed
      moved == IF should_create_new
               THEN [s EXCEPT !.conns[old] = movedOut(@), !.server_conn = 0]
               ELSE s
  IN IF ~s.nodes_.in_config
     THEN [state |-> s, conn |-> 0]
     ELSE IF moved.server_conn # 0
     THEN [state |-> moved, conn |-> moved.server_conn]
     ELSE IF nid_generation # 0 /\ nid_generation # s.nodes_.generation
     THEN [state |-> moved, conn |-> 0]
     ELSE [state |-> [moved EXCEPT !.conns[fresh] =
                        [place |-> "map", closed |-> TRUE,
                         generation |-> s.nodes_.generation,
                         address |-> s.nodes_.address,
                         ssl |-> useSSLWith(s), queued |-> FALSE,
                         reason |-> "none"],
                                   !.server_conn = fresh],
           conn |-> fresh]

\* Sender::initServerConnection for a data connection; nid_generation is the
\* generation of the NodeID the caller names, 0 for any.  The connection
\* that is replaced is handed to the worker, which closes it later.  The
\* result is the state and the connection, 0 for a null pointer.
initServerConnection(s, nid_generation, fresh) ==
  LET old == s.server_conn
      should_create_new ==
        old # 0 /\ (s.conns[old].closed \/ (~s.conns[old].ssl /\ useSSLWith(s)))
      moved == IF should_create_new
               THEN [s EXCEPT !.conns[old] = movedOut(@), !.server_conn = 0]
               ELSE s
  IN IF ~s.nodes_.in_config
     THEN [state |-> s, conn |-> 0]
     ELSE IF moved.server_conn # 0
     THEN [state |-> moved, conn |-> moved.server_conn]
     ELSE IF nid_generation # 0 /\ nid_generation # s.nodes_.generation
     THEN [state |-> moved, conn |-> 0]
     ELSE [state |-> [moved EXCEPT !.conns[fresh] =
                        [place |-> "map", closed |-> TRUE,
                         generation |-> s.nodes_.generation,
                         address |-> s.nodes_.address,
                         ssl |-> useSSLWith(s), queued |-> FALSE,
                         reason |-> "none"],
                                   !.server_conn = fresh],
           conn |-> fresh]

\* Sender::getConnection(const NodeID&, const Message&); connected:
\* Connection::connect() succeeds on a connection that is closed
getServerConnection(s, nid_generation, fresh, connected) ==
  LET got == initServerConnection(s, nid_generation, fresh)
  IN IF got.conn = 0 THEN got
     ELSE IF ~got.state.conns[got.conn].closed THEN got
     ELSE IF connected
     THEN [state |-> [got.state EXCEPT !.conns[got.conn].closed = FALSE],
           conn |-> got.conn]
     ELSE [state |-> got.state, conn |-> 0]

\* Sender::sendMessageImpl(msg, addr): the message is registered with the
\* connection that getConnection returns; sent_on is the connection the
\* last call queued its message on, 0 when the last call was not a send
\* that succeeded
sendToNode(s, nid_generation, fresh, connected) ==
  LET got == getServerConnection(s, nid_generation, fresh, connected)
  IN IF got.conn = 0
     THEN [got.state EXCEPT !.sent_on = 0]
     ELSE [got.state EXCEPT !.conns[got.conn].queued = TRUE,
                            !.sent_on = got.conn]

\* Sender::disconnectFromNodesThatChangedAddressOrGeneration for the node
disconnectOutdated(s) ==
  LET c == s.server_conn
  IN IF c # 0 /\ isNodeConnectionAddressOrGenerationOutdated(s, c)
     THEN [closeServerConn([s EXCEPT !.server_conn = 0], c, "NOTINCONFIG")
             EXCEPT !.conns[c] = destroyed(@)]
     ELSE s

\* Sender::noteConfigurationChanged, the connections being left alone
noteConfigurationChanged_connectionsKept(s, nodes_configuration) ==
  [s EXCEPT !.nodes_ = nodes_configuration, !.sent_on = 0]

\* Sender::noteConfigurationChanged
noteConfigurationChanged(s, nodes_configuration) ==
  disconnectOutdated([s EXCEPT !.nodes_ = nodes_configuration,
                               !.sent_on = 0])

\* Sender::onSettingsUpdated, with the server configuration that
\* useSSLWith reads
onSettingsUpdated(s, cross_boundary, authentication) ==
  disconnectOutdated([s EXCEPT !.cross_boundary = cross_boundary,
                               !.authentication = authentication,
                               !.sent_on = 0])

\* The lambda that Sender::initServerConnection hands to the worker
closeReplacedServerConn(s, c) ==
  [closeServerConn(s, c, "SSLREQUIRED") EXCEPT !.conns[c] = destroyed(@),
                                               !.sent_on = 0]

FreeServerConns(s) == {c \in ConnIds : s.conns[c].place \in {"none", "gone"}}
NewServerConn(s) ==
  CHOOSE c \in FreeServerConns(s) : \A d \in FreeServerConns(s) : c <= d

ServerSendMessage ==
  /\ FreeServerConns(sender) # {}
  /\ \E nid_generation \in {0} \cup Generations, connected \in BOOLEAN :
       sender' = sendToNode(sender, nid_generation, NewServerConn(sender),
                            connected)
  /\ UNCHANGED <<bwVars, esVars, moreVars, router, selector, reader>>

ServerConfigurationChanged ==
  /\ \E nodes_configuration \in NodeConfigs \ {sender.nodes_} :
       sender' = noteConfigurationChanged(sender, nodes_configuration)
  /\ UNCHANGED <<bwVars, esVars, moreVars, router, selector, reader>>

ServerSettingsUpdated ==
  /\ \E cross_boundary \in BOOLEAN, authentication \in BOOLEAN :
       /\ <<cross_boundary, authentication>> #
            <<sender.cross_boundary, sender.authentication>>
       /\ sender' = onSettingsUpdated(sender, cross_boundary, authentication)
  /\ UNCHANGED <<bwVars, esVars, moreVars, router, selector, reader>>

ServerCloseReplaced ==
  /\ \E c \in {d \in ConnIds : sender.conns[d].place = "deferred"} :
       sender' = closeReplacedServerConn(sender, c)
  /\ UNCHANGED <<bwVars, esVars, moreVars, router, selector, reader>>

\* The node disconnects or the connection fails: the Connection closes
\* itself.
ServerPeerDisconnects ==
  /\ \E c \in {d \in ConnIds : sender.conns[d].place \in {"map", "deferred"}
                               /\ ~sender.conns[d].closed} :
       sender' = [closeServerConn(sender, c, "PEER_CLOSED")
                    EXCEPT !.sent_on = 0]
  /\ UNCHANGED <<bwVars, esVars, moreVars, router, selector, reader>>

ServerNext ==
  \/ ServerSendMessage
  \/ ServerConfigurationChanged
  \/ ServerSettingsUpdated
  \/ ServerCloseReplaced
  \/ ServerPeerDisconnects

ServerInit ==
  /\ BWIdle
  /\ ESIdle
  /\ RouterIdle /\ SelectorIdle /\ ReaderIdle
  /\ MoreIdle
  /\ sender = ServerSenderInitial

\* the Sender and one server node whose configuration changes
SpecSenderServer == ServerInit /\ [][ServerNext]_vars

(***************************************************************************)
(* Sender::cleanupConnections and the health of the sockets.  Each         *)
(* connection of the maps is asked for its health, the server connections  *)
(* first.  Connection::checkSocketHealth and Connection::isIdleAfter are   *)
(* not part of the sources at hand: the health of a connection and the     *)
(* set of idle connections are inputs of a pass; a closed connection has   *)
(* nothing to drain and reports ACTIVE.                                    *)
(***************************************************************************)
SocketDrainStatusTypes == {"ACTIVE", "RECV_SLOW", "NET_SLOW", "STALLED"}
NoHealthConn == [kind |-> "none", closed |-> TRUE]
\* the counters of one pass; slow_closed counts the connections that
\* close_if_slow has closed
NoPass ==
  [sockets_closed |-> 0, slow_closed |-> 0, sock_stalled |-> 0,
   reason_net_slow |-> 0, idle_connections_closed |-> 0]

\* the lambda close_if_slow of Sender::cleanupConnections
close_if_slow(s, c, status) ==
  LET is_slow == \/ status = "STALLED"
                 \/ /\ status = "NET_SLOW"
                    /\ s.pass.reason_net_slow < s.rate_limit_socket_closed
      counted == [s EXCEPT
                    !.pass.sock_stalled = @ + (IF status = "STALLED" THEN 1 ELSE 0),
                    !.pass.reason_net_slow = @ + (IF status = "NET_SLOW" THEN 1 ELSE 0)]
  IN IF is_slow
     THEN [counted EXCEPT !.pass.sockets_closed = @ + 1,
                          !.pass.slow_closed = @ + 1,
                          !.conns[c].closed = TRUE]
     ELSE counted

\* the lambda close_if_idle of Sender::cleanupConnections
close_if_idle(s, c, idle) ==
  IF c \in idle
  THEN [s EXCEPT !.pass.idle_connections_closed = @ + 1,
                 !.pass.sockets_closed = @ + 1,
                 !.conns[c].closed = TRUE]
  ELSE s

\* the body of the loop over server_conns_
checkServerConn(s, c, status, idle) ==
  LET checked == close_if_slow(s, c, status)
  IN IF /\ ~checked.server
        /\ checked.pass.idle_connections_closed < checked.rate_limit_idle_connection_closed
        /\ ~checked.conns[c].closed
     THEN close_if_idle(checked, c, idle)
     ELSE checked

RECURSIVE checkConns(_, _, _, _)
checkConns(s, cs, health, idle) ==
  IF cs = {} THEN s
  ELSE LET c == CHOOSE d \in cs : \A e \in cs : d <= e
       IN checkConns(IF s.conns[c].kind = "server"
                     THEN checkServerConn(s, c, health[c], idle)
                     ELSE close_if_slow(s, c, health[c]),
                     cs \ {c}, health, idle)

\* Sender::cleanupConnections
cleanupConnectionsByHealth(s, health, idle) ==
  LET servers == {c \in ConnIds : s.conns[c].kind = "server"}
      clients == {c \in ConnIds : s.conns[c].kind = "client"}
      started == [s EXCEPT !.pass = NoPass]
  IN checkConns(checkConns(started, servers, health, idle), clients, health, idle)

\* the healths the connections can report in a pass
Healths(s) ==
  {health \in [ConnIds -> SocketDrainStatusTypes] :
     \A c \in ConnIds : s.conns[c].closed => health[c] = "ACTIVE"}

\* A connection is made in a free place of the maps, or in the place of a
\* closed one.
HealthConnect ==
  /\ \E c \in {d \in ConnIds : sender.conns[d].closed},
        kind \in {"server", "client"} :
       sender' = [sender EXCEPT !.conns[c] = [kind |-> kind, closed |-> FALSE]]
  /\ UNCHANGED <<bwVars, esVars, moreVars, router, selector, reader>>

HealthCleanupConnections ==
  /\ \E health \in Healths(sender) :
       \E idle \in SUBSET {c \in ConnIds : ~sender.conns[c].closed} :
         sender' = cleanupConnectionsByHealth(sender, health, idle)
  /\ UNCHANGED <<bwVars, esVars, moreVars, router, selector, reader>>

HealthNext ==
  \/ HealthConnect
  \/ HealthCleanupConnections

HealthInit ==
  /\ BWIdle
  /\ ESIdle
  /\ RouterIdle /\ SelectorIdle /\ ReaderIdle
  /\ MoreIdle
  /\ sender \in [server : BOOLEAN,
                 rate_limit_socket_closed : 0..MaxRateLimit,
                 rate_limit_idle_connection_closed : 0..MaxRateLimit,
                 conns : {[c \in ConnIds |-> NoHealthConn]},
                 pass : {NoPass}]

\* the connections of one worker and its health check timer
SpecSenderHealth == HealthInit /\ [][HealthNext]_vars

(***************************************************************************)
(* Sender: the bytes pending in the output buffers of one worker and the   *)
(* limit on them.  Bytes are counted per type of peer; the Connection      *)
(* reports them when it queues a message and when the socket has drained   *)
(* them.  Connection::minOutBufLimitReached and                            *)
(* Connection::registerMessage are not part of the sources at hand and     *)
(* are inputs of a send.                                                   *)
(***************************************************************************)
PeerTypes == {"CLIENT", "NODE"}
NUM_PEER_TYPES == Cardinality(PeerTypes)
MessageSizes == 1..MaxMessageBytes
NoSend ==
  [op |-> "none", peer_type |-> "NODE", handshake |-> FALSE,
   min_out_buf_limit_reached |-> FALSE, err |-> "OK", by |-> "none",
   queued |-> FALSE]

\* Sender::getBytesPending()
getBytesPending(s) == s.bytes_pending["CLIENT"] + s.bytes_pending["NODE"]

\* Sender::bytesPendingLimitReached, the limit itself counting as reached
bytesPendingLimitReached_atLimit(s, peer_type) ==
  LET enforce_per_peer_type_limit ==
        s.server /\ s.outbufs_limit_per_peer_type_enabled
      limit == IF enforce_per_peer_type_limit
               THEN s.outbufs_max_per_thread \div NUM_PEER_TYPES
               ELSE s.outbufs_max_per_thread
      bytes_pending == IF enforce_per_peer_type_limit
                       THEN s.bytes_pending[peer_type]
                       ELSE getBytesPending(s)
  IN bytes_pending >= limit

\* Sender::bytesPendingLimitReached
bytesPendingLimitReached(s, peer_type) ==
  LET enforce_per_peer_type_limit ==
        s.server /\ s.outbufs_limit_per_peer_type_enabled
      limit == IF enforce_per_peer_type_limit
               THEN s.outbufs_max_per_thread \div NUM_PEER_TYPES
               ELSE s.outbufs_max_per_thread
      bytes_pending == IF enforce_per_peer_type_limit
                       THEN s.bytes_pending[peer_type]
                       ELSE getBytesPending(s)
  IN bytes_pending > limit

\* Sender::noteBytesQueued
noteBytesQueued(s, nbytes, peer_type) ==
  [s EXCEPT !.bytes_pending[peer_type] = @ + nbytes]

\* Sender::noteBytesDrained
noteBytesDrained(s, nbytes, peer_type) ==
  [s EXCEPT !.bytes_pending[peer_type] = @ - nbytes,
            !.last = [NoSend EXCEPT !.op = "drained"]]

\* Sender::sendMessageImpl(msg, conn) up to the registration of the
\* message.  min_reached: Connection::minOutBufLimitReached();
\* register_err: what Connection::registerMessage answers, OK when it
\* queues the message.
sendOnConnection(s, peer_type, handshake, min_reached, nbytes, register_err) ==
  LET call == [NoSend EXCEPT !.op = "send", !.peer_type = peer_type,
                             !.handshake = handshake,
                             !.min_out_buf_limit_reached = min_reached]
  IN IF /\ ~handshake
        /\ bytesPendingLimitReached(s, peer_type)
        /\ min_reached
     THEN [s EXCEPT !.last = [call EXCEPT !.err = "NOBUFS", !.by = "Sender"]]
     ELSE IF register_err # "OK"
     THEN [s EXCEPT !.last = [call EXCEPT !.err = register_err,
                                          !.by = "Connection"]]
     ELSE [noteBytesQueued(s, nbytes, peer_type)
             EXCEPT !.last = [call EXCEPT !.queued = TRUE]]

BuffersSendMessage ==
  /\ \E peer_type \in PeerTypes, handshake \in BOOLEAN,
        min_out_buf_limit_reached \in BOOLEAN, nbytes \in MessageSizes,
        register_err \in {"OK", "NOBUFS", "NOTCONN"} :
       /\ getBytesPending(sender) + nbytes <= MaxBytesPending
       /\ sender' = sendOnConnection(sender, peer_type, handshake,
                                     min_out_buf_limit_reached, nbytes,
                                     register_err)
  /\ UNCHANGED <<bwVars, esVars, moreVars, router, selector, reader>>

BuffersDrained ==
  /\ \E peer_type \in PeerTypes :
       \E nbytes \in 1..sender.bytes_pending[peer_type] :
         sender' = noteBytesDrained(sender, nbytes, peer_type)
  /\ UNCHANGED <<bwVars, esVars, moreVars, router, selector, reader>>

BuffersNext ==
  \/ BuffersSendMessage
  \/ BuffersDrained

BuffersInit ==
  /\ BWIdle
  /\ ESIdle
  /\ RouterIdle /\ SelectorIdle /\ ReaderIdle
  /\ MoreIdle
  /\ sender \in [server : BOOLEAN,
                 outbufs_limit_per_peer_type_enabled : BOOLEAN,
                 outbufs_max_per_thread : {MaxOutbufs},
                 bytes_pending : {[p \in PeerTypes |-> 0]},
                 last : {NoSend}]

\* the output buffers of one worker
SpecSenderBuffers == BuffersInit /\ [][BuffersNext]_vars

(***************************************************************************)
(* Sender and traffic shaping: one connection and its flow group, one      *)
(* priority.  FlowGroup, BWAvailableCallback and the callbacks a           *)
(* Connection keeps are not part of the sources at hand: the flow group    *)
(* has a budget of messages it lets through and a queue of callbacks and   *)
(* of envelopes in the order they were pushed; the worker deposits budget  *)
(* and runs the queue in one event, which invokes the callbacks and        *)
(* releases the envelopes at the front while there is budget; a callback   *)
(* of a send sends its message again; and a connection that closes         *)
(* cancels the callbacks pushed on it and fails the envelopes it holds.    *)
(***************************************************************************)
MsgIds == 1..MaxMessages
NoMsg == [state |-> "new", sends |-> 0, on_conn |-> FALSE]
FlowInitial ==
  [level |-> MaxBandwidth,
   q |-> <<>>,
   msgs |-> [m \in MsgIds |-> NoMsg],
   closed |-> FALSE,
   last |-> "none"]

\* FlowGroup::canDrain
canDrain(s) == s.level > 0

\* FlowGroup::drain with Connection::releaseMessage: the message goes to the
\* socket
releaseMessage(s, m) ==
  [s EXCEPT !.level = @ - 1, !.msgs[m].state = "sent", !.msgs[m].sends = @ + 1]

\* Sender::canSendToImpl for a caller that will send message m: the callback
\* is pushed on the flow group only
canSendToImpl(s, m) ==
  IF ~canDrain(s)
  THEN [s EXCEPT !.q = Append(@, m), !.msgs[m].state = "parked",
                 !.last = "CBREGISTERED"]
  ELSE [s EXCEPT !.last = "can send"]

\* Sender::sendMessageImpl(msg, conn, on_bw_avail, onclose) from the flow
\* group on, the callback being pushed on the connection only
sendThroughFlowGroup_notPushedOnFlowGroup(s, m, has_callback, shaping_event) ==
  IF ~shaping_event /\ canDrain(s)
  THEN [releaseMessage(s, m) EXCEPT !.last = "sent"]
  ELSE IF ~has_callback
  THEN [s EXCEPT !.q = Append(@, m), !.msgs[m].state = "deferred",
                 !.last = "deferred"]
  ELSE [s EXCEPT !.msgs[m].state = "parked",
                 !.msgs[m].on_conn = TRUE, !.last = "CBREGISTERED"]

\* Sender::sendMessageImpl(msg, conn, on_bw_avail, onclose) from the flow
\* group on; has_callback: on_bw_avail is not null; shaping_event: the
\* error injection of the settings makes the flow group refuse
sendThroughFlowGroup(s, m, has_callback, shaping_event) ==
  IF ~shaping_event /\ canDrain(s)
  THEN [releaseMessage(s, m) EXCEPT !.last = "sent"]
  ELSE IF ~has_callback
  THEN [s EXCEPT !.q = Append(@, m), !.msgs[m].state = "deferred",
                 !.last = "deferred"]
  ELSE [s EXCEPT !.q = Append(@, m), !.msgs[m].state = "parked",
                 !.msgs[m].on_conn = TRUE, !.last = "CBREGISTERED"]

\* BWAvailableCallback::operator() of the callback of message m, or the
\* release of its envelope: the owner sends the message now
onBWAvailable(s, m) ==
  IF s.msgs[m].state = "parked" /\ s.closed
  THEN [s EXCEPT !.msgs[m].state = "failed"]
  ELSE releaseMessage(s, m)

\* FlowGroup::run
RECURSIVE run(_)
run(s) ==
  IF s.q = <<>> \/ ~canDrain(s) THEN s
  ELSE run(onBWAvailable([s EXCEPT !.q = Tail(@)], Head(s.q)))

\* The worker's traffic shaping event: budget is deposited and the flow
\* group is run
runFlowGroups(s, deposit) ==
  LET level == IF s.level + deposit > MaxBandwidth
               THEN MaxBandwidth ELSE s.level + deposit
  IN [run([s EXCEPT !.level = level]) EXCEPT !.last = "run"]

\* Connection::close: the callbacks pushed on the connection are cancelled,
\* its envelopes are failed
closeFlowConn(s) ==
  LET cancelled == {m \in MsgIds : s.msgs[m].state = "parked" /\ s.msgs[m].on_conn}
      dropped == {m \in MsgIds : s.msgs[m].state = "deferred"}
  IN [s EXCEPT
        !.closed = TRUE,
        !.q = SelectSeq(@, LAMBDA m : m \notin cancelled \cup dropped),
        !.msgs = [m \in MsgIds |->
                    IF m \in cancelled THEN [@[m] EXCEPT !.state = "cancelled"]
                    ELSE IF m \in dropped THEN [@[m] EXCEPT !.state = "failed"]
                    ELSE @[m]],
        !.last = "closed"]

NewMsgs(s) == {m \in MsgIds : s.msgs[m].state = "new"}
NewMsg(s) == CHOOSE m \in NewMsgs(s) : \A n \in NewMsgs(s) : m <= n

FlowCanSendTo ==
  /\ ~sender.closed
  /\ NewMsgs(sender) # {}
  /\ ~canDrain(sender)
  /\ sender' = canSendToImpl(sender, NewMsg(sender))
  /\ UNCHANGED <<bwVars, esVars, moreVars, router, selector, reader>>

FlowSendMessage ==
  /\ ~sender.closed
  /\ NewMsgs(sender) # {}
  /\ \E has_callback \in BOOLEAN, shaping_event \in BOOLEAN :
       sender' = sendThroughFlowGroup(sender, NewMsg(sender), has_callback,
                                      shaping_event)
  /\ UNCHANGED <<bwVars, esVars, moreVars, router, selector, reader>>

FlowRun ==
  /\ \E deposit \in 1..MaxBandwidth :
       sender' = runFlowGroups(sender, deposit)
  /\ UNCHANGED <<bwVars, esVars, moreVars, router, selector, reader>>

FlowClose ==
  /\ ~sender.closed
  /\ sender' = closeFlowConn(sender)
  /\ UNCHANGED <<bwVars, esVars, moreVars, router, selector, reader>>

FlowNext ==
  \/ FlowCanSendTo
  \/ FlowSendMessage
  \/ FlowRun
  \/ FlowClose

FlowInit ==
  /\ BWIdle
  /\ ESIdle
  /\ RouterIdle /\ SelectorIdle /\ ReaderIdle
  /\ MoreIdle
  /\ sender = FlowInitial

\* the sends of one worker through a flow group whose budget the worker
\* keeps refilling
SpecSenderFlow == FlowInit /\ [][FlowNext]_vars /\ WF_vars(FlowRun)

(***************************************************************************)
(* Sender::sendMessageImpl and the ownership of the message.  The caller   *)
(* passes its std::unique_ptr<Message> by rvalue reference: caller[m] says *)
(* whether the pointer of the caller still holds message m after the       *)
(* call, place[m] where the Sender's side holds it, returned[m] and rv[m]  *)
(* whether a call for m has returned and what the last one returned.       *)
(* Connection is not                                                       *)
(* part of the sources at hand: registerMessage moves the message into an  *)
(* envelope when it succeeds and leaves it alone when it fails, and        *)
(* discardEnvelope gives the message of the envelope back, as the          *)
(* ld_checks around the calls state.                                       *)
(***************************************************************************)
Places == {"none", "pendingq", "flow_group", "socket"}

\* what getConnection() leaves in err when it finds no connection
GetConnectionErrs == {"NOTINCONFIG", "SHUTDOWN"}

\* what Connection::registerMessage leaves in err when it fails
RegisterErrs == {"NOBUFS", "NOTCONN", "PROTONOSUPPORT"}

\* the conditions one call of sendMessageImpl meets
SendInputs ==
  [gossip_refused : BOOLEAN, nobufs : BOOLEAN, register_err : {"OK"} \cup RegisterErrs,
   dropped : BOOLEAN, drained : BOOLEAN, has_callback : BOOLEAN]

OwnershipInitial ==
  [caller |-> [m \in MsgIds |-> TRUE],
   place |-> [m \in MsgIds |-> "none"],
   returned |-> [m \in MsgIds |-> FALSE],
   rv |-> [m \in MsgIds |-> 0],
   err |-> "none",
   aborted |-> FALSE]

\* Connection::registerMessage(std::move(msg)): the envelope, if any
registerMessage(s, m, register_err) ==
  IF register_err # "OK"
  THEN [s |-> [s EXCEPT !.err = register_err], envelope |-> FALSE]
  ELSE [s |-> [s EXCEPT !.caller[m] = FALSE, !.place[m] = "pendingq"],
        envelope |-> TRUE]

\* a discardEnvelope() whose result is dropped with the envelope
discardEnvelope_dropped(s, m) == [s EXCEPT !.place[m] = "none"]

\* msg = conn.discardEnvelope(*envelope)
discardEnvelope(s, m) == [s EXCEPT !.caller[m] = TRUE, !.place[m] = "none"]

\* sendMessageImpl(msg, conn, on_bw_avail, onclose), after the message was
\* registered
sendRegistered(s, m, in) ==
  IF in.dropped THEN [s |-> s, rv |-> 0]
  ELSE IF in.drained
  THEN [s |-> [s EXCEPT !.place[m] = "socket"], rv |-> 0]
  ELSE IF ~in.has_callback
  THEN [s |-> [s EXCEPT !.place[m] = "flow_group"], rv |-> 0]
  ELSE [s |-> [discardEnvelope(s, m) EXCEPT !.err = "CBREGISTERED"], rv |-> -1]

\* sendMessageImpl(msg, conn, on_bw_avail, onclose)
sendMessageImplOnConnection(s, m, in, aborts) ==
  IF in.gossip_refused
  THEN [s |-> [s EXCEPT !.err = "INTERNAL", !.aborted = aborts], rv |-> -1]
  ELSE IF in.nobufs
  THEN [s |-> [s EXCEPT !.err = "NOBUFS"], rv |-> -1]
  ELSE IF ~registerMessage(s, m, in.register_err).envelope
  THEN [s |-> registerMessage(s, m, in.register_err).s, rv |-> -1]
  ELSE sendRegistered(registerMessage(s, m, in.register_err).s, m, in)

\* sendMessageImpl(msg, addr, on_bw_avail, onclose); get_err: the err of
\* getConnection(), OK when it found the connection
sendMessageImplToAddress(s, m, get_err, in, aborts) ==
  IF get_err # "OK"
  THEN [s |-> [s EXCEPT !.err = get_err], rv |-> -1]
  ELSE sendMessageImplOnConnection(s, m, in, aborts)

\* the caller sends a message it holds: a new one, or one a send has failed
\* on; a call that ends the process does not return
OwnSendMessage ==
  /\ ~sender.aborted
  /\ \E m \in MsgIds, get_err \in {"OK"} \cup GetConnectionErrs, in \in SendInputs,
        aborts \in ldCheckFalseAborts :
       /\ sender.caller[m]
       /\ LET r == sendMessageImplToAddress(sender, m, get_err, in, aborts)
          IN sender' = IF r.s.aborted THEN r.s
                       ELSE [r.s EXCEPT !.returned[m] = TRUE, !.rv[m] = r.rv]
  /\ UNCHANGED <<bwVars, esVars, moreVars, router, selector, reader>>

\* the flow group releases a message it had deferred
OwnRelease ==
  /\ ~sender.aborted
  /\ \E m \in MsgIds :
       /\ sender.place[m] = "flow_group"
       /\ sender' = [sender EXCEPT !.place[m] = "socket"]
  /\ UNCHANGED <<bwVars, esVars, moreVars, router, selector, reader>>

OwnNext ==
  \/ OwnSendMessage
  \/ OwnRelease

OwnInit ==
  /\ BWIdle
  /\ ESIdle
  /\ RouterIdle /\ SelectorIdle /\ ReaderIdle
  /\ MoreIdle
  /\ sender = OwnershipInitial

\* the sends of one worker and who holds each message
SpecSenderOwnership == OwnInit /\ [][OwnNext]_vars

(***************************************************************************)
(* CONFIG_FETCH for the nodes configuration: one node and the requests it  *)
(* receives.  A nodes configuration is its version and its membership; its *)
(* serialization is the sequence of both, and the body of a message is     *)
(* such a sequence or the empty one.                                       *)
(***************************************************************************)
ConfigVersions == 1..MaxConfigVersion

Memberships == {{0}, {0, 1}}

\* the versions a requester can report: header_.my_version, 0 from a
\* requester that reports none
ReportedVersions == 0..MaxConfigVersion

EmptyBody == <<>>

NoConfigChanged == [status |-> "none", body |-> EmptyBody, version |-> 0, action |-> "none"]

NoConfigFetch == [my_version |-> 0, waiting |-> FALSE, serialized |-> FALSE]

\* NodesConfiguration::serialize(): nothing when it fails
serializeNodesConfiguration(nodes_cfg, serialized) ==
  IF serialized THEN <<nodes_cfg.version, nodes_cfg.nodes>> ELSE EmptyBody

\* a node that takes a requester at its own version for outdated
requesterIsUpToDate_strict(nodes_cfg, my_version) == nodes_cfg.version < my_version

\* nodes_cfg->getVersion().val() <= header_.my_version
requesterIsUpToDate(nodes_cfg, my_version) == nodes_cfg.version <= my_version

\* CONFIG_FETCH_Message::handleNodesConfigurationRequest: the message given
\* to sendMessage, if any.  waiting: isCallerWaitingForCallback();
\* serialized: nodes_cfg->serialize() gave a value
handleNodesConfigurationRequest(nodes_cfg, my_version, waiting, serialized) ==
  LET hdr == [status |-> "OK", body |-> EmptyBody, version |-> nodes_cfg.version,
              action |-> IF waiting THEN "CALLBACK" ELSE "UPDATE"]
  IN IF requesterIsUpToDate(nodes_cfg, my_version)
     THEN [hdr EXCEPT !.status = "UPTODATE"]
     ELSE IF ~serialized THEN NoConfigChanged
     ELSE [hdr EXCEPT !.body = serializeNodesConfiguration(nodes_cfg, serialized)]

FetchInitial ==
  [nodes_cfg |-> [version |-> 1, nodes |-> {0}],
   request |-> NoConfigFetch,
   handled |-> FALSE,
   reply |-> NoConfigChanged]

\* the node takes a new nodes configuration
FetchConfigUpdated ==
  /\ cluster.nodes_cfg.version < MaxConfigVersion
  /\ \E nodes \in Memberships :
       cluster' = [cluster EXCEPT
                     !.nodes_cfg = [version |-> @.version + 1, nodes |-> nodes]]
  /\ UNCHANGED <<bwVars, esVars, router, selector, sender, reader, trim, stuck, overrides>>

\* the node receives a CONFIG_FETCH for the nodes configuration
FetchReceived ==
  /\ \E my_version \in ReportedVersions, waiting \in BOOLEAN, serialized \in BOOLEAN :
       cluster' = [cluster EXCEPT
                     !.request = [my_version |-> my_version, waiting |-> waiting,
                                  serialized |-> serialized],
                     !.handled = TRUE,
                     !.reply = handleNodesConfigurationRequest(
                                 cluster.nodes_cfg, my_version, waiting, serialized)]
  /\ UNCHANGED <<bwVars, esVars, router, selector, sender, reader, trim, stuck, overrides>>

FetchNext ==
  \/ FetchConfigUpdated
  \/ FetchReceived

FetchInit ==
  /\ BWIdle
  /\ ESIdle
  /\ RouterIdle /\ SelectorIdle /\ SenderIdle /\ ReaderIdle
  /\ TrimIdle /\ StuckIdle /\ OverridesIdle
  /\ cluster = FetchInitial

\* a node answering CONFIG_FETCH messages while its configuration changes
SpecConfigFetch == FetchInit /\ [][FetchNext]_vars

(***************************************************************************)
(* NodeRegistrationHandler: nodes that register and update themselves in   *)
(* the nodes configuration kept in a NodesConfigurationStore.  A nodes     *)
(* configuration is its version and the set of its nodes, each an index    *)
(* and the node that holds it (0: a node that was there before).  The      *)
(* store, the allocator of indices and RetryHandler are not part of the    *)
(* sources at hand: the store replaces its configuration when the base     *)
(* version it is given is the version it holds and answers                 *)
(* VERSION_MISMATCH otherwise, the allocator gives the smallest free       *)
(* index, and syncRun runs the function until the status is not one to     *)
(* retry on or the number of tries is reached.                             *)
(***************************************************************************)
kMaxNumRetries == 10

Handlers == 1..NumRegistering

Indices == 0..NumRegistering

\* what the store can answer besides OK and VERSION_MISMATCH
StoreErrs == {"TIMEDOUT"}

Taken(nc) == {p[1] : p \in nc.nodes}

\* NodeIndicesAllocator::allocate(service_discovery, 1)
allocate(nc) ==
  CHOOSE i \in Indices \ Taken(nc) : \A j \in Indices \ Taken(nc) : i <= j

\* NodesConfiguration::applyUpdate for the update of handler h and index
\* idx: the node is added, or the node that is there is changed
applyNodeUpdate(nc, idx, h) ==
  [version |-> nc.version + 1,
   nodes |-> {p \in nc.nodes : p[1] # idx} \cup {<<idx, h>>}]

\* NodesConfigurationStore::updateConfigSync(new_config, base_version):
\* base_version is the set of the version given, empty for a write that
\* is not conditional
updateConfigSync(stored, new_config, base_version) ==
  IF base_version \subseteq {stored.version}
  THEN [status |-> "OK", stored |-> new_config]
  ELSE [status |-> "VERSION_MISMATCH", stored |-> stored]

\* a handler that gives the store no base version
baseVersion_none(h) == {}

\* the base version applyUpdate() gives the store:
\* getNodesConfiguration().getVersion()
baseVersion(h) == {h.nc.version}

InitialNodesConfiguration == [version |-> 1, nodes |-> {<<0, 0>>}]

\* a RetryHandler that tries again after every failure
shouldRetry_anyFailure(st) == st # "OK"

\* [](const Status& st) { return st == Status::VERSION_MISMATCH; }
shouldRetry(st) == st = "VERSION_MISMATCH"

\* RetryHandler<Status>::syncRun, after the function returned st in try
\* number h.trials + 1; registerSelf and updateSelf, after syncRun returned.
\* The configuration of a handler that is done is not read again
syncRun(h, st) ==
  IF shouldRetry(st) /\ h.trials + 1 < kMaxNumRetries
  THEN [h EXCEPT !.pc = "run", !.trials = @ + 1, !.status = st]
  ELSE [h EXCEPT !.pc = "done", !.trials = @ + 1, !.status = st,
                 !.nc = InitialNodesConfiguration,
                 !.result = IF st = "OK" /\ h.op = "register"
                            THEN {h.my_idx} ELSE {}]

\* the function syncRun runs, up to the call of the store: my_idx, and the
\* status the function returns before it reaches the store, if any.
\* built: buildSelfUpdate() gave an update; empty: the update is empty
beforeStore(h, built, empty) ==
  LET g == [h EXCEPT !.my_idx = IF h.op = "register" THEN allocate(h.nc) ELSE @]
  IN IF ~built THEN syncRun(g, "INVALID_ATTRIBUTES")
     ELSE IF empty THEN syncRun(g, "UPTODATE")
     ELSE [g EXCEPT !.pc = "write"]

\* applyUpdate(), after updateConfigSync answered r.  config_out: the store
\* gave its configuration with the mismatch; deserialized: it can be read
afterUpdateConfigSync(h, r, config_out, deserialized) ==
  IF r.status # "VERSION_MISMATCH" THEN syncRun(h, r.status)
  ELSE IF ~config_out THEN [h EXCEPT !.pc = "fetch"]
  ELSE IF ~deserialized THEN syncRun(h, "BADMSG")
  ELSE syncRun([h EXCEPT !.nc = r.stored], "VERSION_MISMATCH")

\* applyUpdate(), after getConfigSync answered read_status
afterGetConfigSync(h, stored, read_status, deserialized) ==
  IF read_status # "OK" THEN syncRun(h, read_status)
  ELSE IF ~deserialized THEN syncRun(h, "BADMSG")
  ELSE syncRun([h EXCEPT !.nc = stored], "VERSION_MISMATCH")

NoHandler ==
  [nc |-> InitialNodesConfiguration, pc |-> "idle", op |-> "register",
   my_idx |-> 0, trials |-> 0, status |-> "none", result |-> {}]

RegistrationInitial(handlers, other_updates) ==
  [stored |-> InitialNodesConfiguration,
   handlers |-> [h \in handlers |-> NoHandler],
   other_updates |-> other_updates]

\* registerSelf(allocator) is called on node h
RegisterSelf ==
  /\ \E h \in DOMAIN cluster.handlers :
       /\ cluster.handlers[h].pc = "idle"
       /\ cluster' = [cluster EXCEPT !.handlers[h].pc = "run"]
  /\ UNCHANGED <<bwVars, esVars, router, selector, sender, reader, trim, stuck, overrides>>

\* updateSelf(my_idx) is called on a node that has registered itself, by a
\* handler made with the configuration of that time
UpdateSelf ==
  /\ \E h \in DOMAIN cluster.handlers :
       /\ cluster.handlers[h].pc = "done"
       /\ cluster.handlers[h].op = "register"
       /\ cluster.handlers[h].result # {}
       /\ cluster' = [cluster EXCEPT
                        !.handlers[h] = [@ EXCEPT !.pc = "run", !.op = "update",
                                                  !.nc = cluster.stored,
                                                  !.trials = 0, !.status = "none"]]
  /\ UNCHANGED <<bwVars, esVars, router, selector, sender, reader, trim, stuck, overrides>>

\* one try of node h, up to the call of the store
RegTry ==
  /\ \E h \in DOMAIN cluster.handlers, built \in BOOLEAN, empty \in BOOLEAN :
       /\ cluster.handlers[h].pc = "run"
       /\ (empty => cluster.handlers[h].op = "update")
       /\ cluster' = [cluster EXCEPT
                        !.handlers[h] = beforeStore(@, built, empty)]
  /\ UNCHANGED <<bwVars, esVars, router, selector, sender, reader, trim, stuck, overrides>>

\* the store answers the updateConfigSync of node h
RegWrite ==
  /\ \E h \in DOMAIN cluster.handlers, failure \in {"none"} \cup StoreErrs,
        config_out \in BOOLEAN, deserialized \in BOOLEAN :
       /\ cluster.handlers[h].pc = "write"
       /\ LET me == cluster.handlers[h]
              r == IF failure # "none"
                   THEN [status |-> failure, stored |-> cluster.stored]
                   ELSE updateConfigSync(cluster.stored,
                                         applyNodeUpdate(me.nc, me.my_idx, h),
                                         baseVersion(me))
          IN cluster' = [cluster EXCEPT
                           !.stored = r.stored,
                           !.handlers[h] =
                              afterUpdateConfigSync(me, r, config_out, deserialized)]
  /\ UNCHANGED <<bwVars, esVars, router, selector, sender, reader, trim, stuck, overrides>>

\* the store answers the getConfigSync of node h
RegFetch ==
  /\ \E h \in DOMAIN cluster.handlers, read_status \in {"OK"} \cup StoreErrs,
        deserialized \in BOOLEAN :
       /\ cluster.handlers[h].pc = "fetch"
       /\ cluster' = [cluster EXCEPT
                        !.handlers[h] = afterGetConfigSync(@, cluster.stored,
                                                           read_status, deserialized)]
  /\ UNCHANGED <<bwVars, esVars, router, selector, sender, reader, trim, stuck, overrides>>

\* another writer changes the nodes configuration in the store
RegOtherUpdate ==
  /\ cluster.other_updates > 0
  /\ cluster' = [cluster EXCEPT !.stored.version = @ + 1,
                                !.other_updates = @ - 1]
  /\ UNCHANGED <<bwVars, esVars, router, selector, sender, reader, trim, stuck, overrides>>

RegNext ==
  \/ RegisterSelf
  \/ UpdateSelf
  \/ RegTry
  \/ RegWrite
  \/ RegFetch
  \/ RegOtherUpdate

RegInit ==
  /\ BWIdle
  /\ ESIdle
  /\ RouterIdle /\ SelectorIdle /\ SenderIdle /\ ReaderIdle
  /\ TrimIdle /\ StuckIdle /\ OverridesIdle
  /\ cluster = RegistrationInitial(Handlers, 1)

\* several nodes registering themselves at once, and one change of the
\* configuration by another writer
SpecNodeRegistration == RegInit /\ [][RegNext]_vars

RetriesInit ==
  /\ BWIdle
  /\ ESIdle
  /\ RouterIdle /\ SelectorIdle /\ SenderIdle /\ ReaderIdle
  /\ TrimIdle /\ StuckIdle /\ OverridesIdle
  /\ cluster = RegistrationInitial({1}, kMaxNumRetries + MaxOtherUpdates)

\* one node registering and updating itself while other writers keep
\* changing the configuration; syncRun is a loop of one thread and the calls
\* of the store return
SpecNodeRegistrationRetries ==
  /\ RetriesInit
  /\ [][RegNext]_vars
  /\ WF_vars(RegTry)
  /\ WF_vars(RegWrite)
  /\ WF_vars(RegFetch)

(***************************************************************************)
(* BufferedWriterSingleLog: properties.                                    *)
(***************************************************************************)
StrictlyIncreasing(q) == \A i, j \in 1..Len(q) : i < j => q[i] < q[j]

Unfinished(s) == {i \in 1..Len(s.batches) : s.batches[i].state # "FINISHED"}

RECURSIVE BatchAppends(_, _)
BatchAppends(s, i) ==
  IF i > Len(s.batches) THEN <<>>
  ELSE s.batches[i].appends \o BatchAppends(s, i + 1)

\* the appends the writer still holds, batches first, then the blocked queue
Pending(s) == Ids(BatchAppends(s, 1) \o Flatten(s.blocked_appends))

Accepted == 1..(nextAppend - 1)

AllCalledBack == \A a \in Accepted : bw.callbacks[a] # <<>>

\* C1 as stated: in the one-at-a-time mode, once every append call has had
\* its callback, the records handed to the log, batches in the order they
\* were sent, are exactly the append calls, in call order: none reordered,
\* duplicated or skipped.
C1_LogEqualsAppendCalls ==
  (bw.mode = "ONE_AT_A_TIME" /\ alive = "running" /\ AllCalledBack)
    => bw.sent = [i \in Accepted |-> i]

\* C1 as amended: in the one-at-a-time mode the records handed to the log,
\* batches in the order they were sent and a batch sent again after a failure
\* counted once, are append calls in call order, none reordered or
\* duplicated; the records the log acknowledged are those of them whose
\* callback reported OK, in the same order; an append call is skipped only
\* when it is failed or still held, never when it was acknowledged.
C1_LogIsAppendCallsInOrder ==
  bw.mode = "ONE_AT_A_TIME" =>
    /\ StrictlyIncreasing(bw.sent)
    /\ Range(bw.sent) \subseteq Accepted
    /\ StrictlyIncreasing(bw.log)
    /\ Range(bw.log) \subseteq Range(bw.sent)
    /\ Range(bw.log) = {a \in AppendIds : "OK" \in Range(bw.callbacks[a])}

\* C1 witness: the first append was sent and failed, the second, queued
\* behind it, was failed without being sent, the third was sent and stored.
C1_Witness ==
  /\ bw.mode = "ONE_AT_A_TIME"
  /\ bw.sent = <<1, 3>>
  /\ bw.log = <<3>>
  /\ bw.callbacks[2] = <<"FAILED">>

\* C2: in the one-at-a-time mode at most one batch of the log is outside
\* the FINISHED state, and no batch was created while another batch was
\* building, being encoded, in flight or waiting for a retry.
C2_OneUnfinishedBatch ==
  bw.mode = "ONE_AT_A_TIME" =>
    /\ Cardinality(Unfinished(bw)) <= 1
    /\ ~bw.created_while_busy

\* C2 witness: the second batch is in flight, after the first one finished,
\* while an append waits in the queue.
C2_Witness ==
  /\ bw.mode = "ONE_AT_A_TIME"
  /\ Len(bw.batches) = 1
  /\ bw.batches[1].num = 2
  /\ bw.batches[1].state = "INFLIGHT"
  /\ bw.blocked_appends # <<>>

\* the step is the reply that ended batch last'.num (it is not retried)
ReplyEndsBatch ==
  /\ last'.op = "reply"
  /\ bw' # bw
  /\ \A i \in 1..Len(bw'.batches) : bw'.batches[i].num # last'.num

\* some prefix of the queue became the batch, the rest stayed queued
PrefixBecameBatch(queue, batch, rest) ==
  \E k \in 1..Len(queue) :
    /\ Ids(batch.appends) = Ids(Flatten(SubSeq(queue, 1, k)))
    /\ rest = SubSeq(queue, k + 1, Len(queue))

\* the whole queue became the next batch, which the sink refused at once
QueueFailedAtOnce ==
  /\ bw'.batches = <<>>
  /\ bw'.blocked_appends = <<>>
  /\ \A a \in Range(Ids(Flatten(bw.blocked_appends))) :
       bw'.callbacks[a] = <<"FAILED">>

\* an append call made while a batch is in flight goes to the tail of the
\* blocked queue and leaves the batch alone
AppendIsQueuedAtTail ==
  (/\ last'.op = "append"
   /\ nextAppend' > nextAppend
   /\ bw.batches # <<>>
   /\ bw.batches[Len(bw.batches)].state
        \in {"CONSTRUCTING_BLOB", "READY_TO_SEND", "INFLIGHT", "RETRY_PENDING"})
    => /\ Len(bw'.blocked_appends) = Len(bw.blocked_appends) + 1
       /\ SubSeq(bw'.blocked_appends, 1, Len(bw.blocked_appends))
            = bw.blocked_appends
       /\ Ids(bw'.blocked_appends[Len(bw'.blocked_appends)])
            = [i \in 1..(nextAppend' - nextAppend) |-> nextAppend + i - 1]
       /\ bw'.batches = bw.batches

\* C3: in the one-at-a-time mode an append received while a batch is in
\* flight is queued at the tail of the queue, and when that batch completes
\* with success the queued appends go into the next batch in submission
\* order: a non-empty prefix of the queue becomes the next batch and the
\* rest stays queued in order (or that batch, holding the whole queue, was
\* refused by the sink at once and failed), the writer keeps running, and
\* the appends held are in submission order, batch first, then queue.
C3_QueuedAppendsJoinNextBatch ==
  /\ [](bw.mode = "ONE_AT_A_TIME" => StrictlyIncreasing(Pending(bw)))
  /\ [][bw.mode = "ONE_AT_A_TIME" =>
         /\ AppendIsQueuedAtTail
         /\ (ReplyEndsBatch /\ last'.status = "OK" /\ bw.blocked_appends # <<>>)
              => /\ alive' = "running"
                 /\ \/ /\ Len(bw'.batches) = 1
                       /\ PrefixBecameBatch(bw.blocked_appends, bw'.batches[1],
                                            bw'.blocked_appends)
                    \/ QueueFailedAtOnce]_bwVars

\* C4: when the writer is destroyed every append that has had no callback,
\* in an unfinished batch or in the blocked queue, gets exactly one callback,
\* with status SHUTDOWN; an append that already has a status gets none; and
\* nothing is called back after that.
C4_ShutdownCallsBackOnce ==
  /\ [][(alive = "running" /\ alive' = "destroyed") =>
          \A a \in AppendIds :
            bw'.callbacks[a] =
              IF a \in Accepted /\ bw.callbacks[a] = <<>>
              THEN <<"SHUTDOWN">> ELSE bw.callbacks[a]]_bwVars
  /\ [][alive = "destroyed" => bw'.callbacks = bw.callbacks]_bwVars

\* C4 witness: the writer was destroyed with the second append in the batch
\* in flight and the third in the queue; the first had succeeded before.
C4_Witness ==
  /\ alive = "destroyed"
  /\ last.op = "destroy"
  /\ bw.callbacks[1] = <<"OK">>
  /\ bw.callbacks[2] = <<"SHUTDOWN">>
  /\ bw.callbacks[3] = <<"SHUTDOWN">>
  /\ bw.sink_requests = {2}

(***************************************************************************)
(* ZookeeperEpochStore: properties.                                        *)
(***************************************************************************)
ReqIds == 1..Len(reqs)

\* the status given to the caller of request r, "none" when nothing was
Status(r) == IF reqs[r].posted = <<>> THEN "none" ELSE reqs[r].posted[1].st

AllZnodes(z) == \A n \in Znodes : z.nodes[n].exists

NoZnode(z) == \A n \in Znodes : ~z.nodes[n].exists

\* C5: the stored last-clean epoch never decreases: the znode changes only
\* in the step in which the conditional write of a set_last_clean_epoch
\* request takes effect, the request's lce is then strictly greater than the
\* stored one, and every other step, the end of a refused request included,
\* leaves the stored value as it is.
C5_LastCleanEpochNeverDecreases ==
  /\ [][zk.nodes["lce"].exists =>
         /\ zk'.nodes["lce"].exists
         /\ zk'.nodes["lce"].value >= zk.nodes["lce"].value
         /\ (zk'.nodes["lce"] # zk.nodes["lce"] =>
               \E r \in ReqIds :
                 /\ reqs[r].kind = "SetLastCleanEpochZRQ"
                 /\ reqs[r].phase = "setData"
                 /\ reqs'[r].phase = "done"
                 /\ reqs[r].epoch = zk'.nodes["lce"].value
                 /\ reqs[r].epoch > zk.nodes["lce"].value)]_esVars
  /\ [](\A r \in ReqIds :
          (reqs[r].kind = "SetLastCleanEpochZRQ" /\ Status(r) = "STALE")
            => /\ reqs[r].over = -1
               /\ reqs[r].epoch <= zk.nodes["lce"].value)

\* C5 witness: a request with lce 2 was accepted, a later one with lce 1
\* was refused as stale, and the stored value is 2.
C5_Witness ==
  /\ zk.nodes["lce"].value = 2
  /\ \E r, q \in ReqIds :
       /\ reqs[r].kind = "SetLastCleanEpochZRQ"
       /\ reqs[r].epoch = 2
       /\ Status(r) = "OK"
       /\ reqs[q].kind = "SetLastCleanEpochZRQ"
       /\ reqs[q].epoch = 1
       /\ Status(q) = "STALE"

\* C6: a read-modify-write that completes with OK wrote over the very
\* version of the znode it had read, and of the requests that read the same
\* version of the same znode no other one had its write take effect, so at
\* most one of them completes with OK.
C6_SuccessfulWriteWasAtomic ==
  \A r \in ReqIds :
    (reqs[r].writes > 0 /\ Status(r) = "OK") =>
      /\ reqs[r].over = reqs[r].read_version
      /\ \A q \in ReqIds \ {r} :
           (/\ getZnodePath(reqs[q].kind) = getZnodePath(reqs[r].kind)
            /\ reqs[q].writes > 0
            /\ reqs[q].read_version = reqs[r].read_version)
             => /\ Status(q) # "OK"
                /\ reqs[q].over = -1

\* C6 witness: two requests read the same version of the same znode and
\* both wrote; one completed with OK, the other did not.
C6_Witness ==
  \E r, q \in ReqIds :
    /\ r # q
    /\ getZnodePath(reqs[q].kind) = getZnodePath(reqs[r].kind)
    /\ reqs[r].read_version = reqs[q].read_version
    /\ reqs[r].writes = 1
    /\ reqs[q].writes = 1
    /\ Status(r) = "OK"
    /\ reqs[q].phase = "done"
    /\ reqs[q].rc = "ZBADVERSION"

C8_VersionMismatchIsAgain ==
  \A r \in ReqIds :
    /\ (reqs[r].rc = "ZBADVERSION" =>
          /\ Len(reqs[r].posted) = 1
          /\ reqs[r].posted[1].st = "AGAIN")
    /\ \A i \in 1..Len(reqs[r].posted) :
         reqs[r].posted[i].st # "VERSION_MISMATCH"

\* C8 witness: a metadata update found the version of its znode changed by
\* another update and was completed with AGAIN.
C8_Witness ==
  \E r \in ReqIds :
    /\ reqs[r].kind = "EpochMetaDataZRQ"
    /\ reqs[r].rc = "ZBADVERSION"
    /\ reqs[r].posted = <<[st |-> "AGAIN", shutting_down |-> FALSE]>>
    /\ zk.nodes["sequencer"].version = 1

\* C9: the znode of the log, its epoch-metadata znode and its two
\* last-clean-epoch znodes exist all together or not at all, and only under
\* the root path; a request whose provisioning found the root path missing
\* while zk_create_root_znodes is off is completed with NOTFOUND and nothing
\* was created.
C9_ProvisioningIsAtomic ==
  /\ AllZnodes(zk) \/ NoZnode(zk)
  /\ AllZnodes(zk) => zk.root
  /\ \A r \in ReqIds :
       (/\ reqs[r].phase = "done"
        /\ reqs[r].multis > 0
        /\ reqs[r].rc = "ZNONODE")
         => /\ ~store.zk_create_root_znodes
            /\ Status(r) = "NOTFOUND"
            /\ ~zk.root
            /\ NoZnode(zk)

\* C9 witness: the root path was missing, a request created it, ran the
\* multi-operation again and completed with OK; all four znodes exist.
C9_Witness ==
  /\ AllZnodes(zk)
  /\ \E r \in ReqIds :
       /\ reqs[r].multis = 2
       /\ Status(r) = "OK"

\* C11: a call of set_last_clean_epoch with a tail record that is invalid
\* or carries offsets within the epoch sets err to INVALID_PARAM and hands
\* no request to the store: in that step no request is added, no request
\* changes (nothing is read, written or completed) and the znodes are
\* untouched; there is no request the completion callback could belong to.
C11_InvalidTailRecordIsRefused ==
  /\ [][store'.invalid_calls # store.invalid_calls =>
         /\ store'.err = "INVALID_PARAM"
         /\ reqs' = reqs
         /\ zk' = zk]_esVars
  /\ [](store.invalid_calls > 0 => store.err = "INVALID_PARAM")

\* C11 witness: the first call was refused and the process went on; the
\* second call, with a valid tail record, completed with OK.
C11_Witness ==
  /\ store.invalid_calls = 1
  /\ store.err = "INVALID_PARAM"
  /\ ~store.aborted
  /\ Len(reqs) = 1
  /\ reqs[1].kind = "SetLastCleanEpochZRQ"
  /\ Status(1) = "OK"

\* C10 as stated: no completion is posted while the store is shutting down.
C10_NothingPostedWhileShuttingDown ==
  \A r \in ReqIds :
    \A i \in 1..Len(reqs[r].posted) : ~reqs[r].posted[i].shutting_down

\* C10 as amended: while the store is shutting down no completion with
\* status SHUTDOWN is posted: a request stays without a completion exactly
\* when it ended with SHUTDOWN during the shutdown; a request that ends with
\* any other status before the Zookeeper client is closed is still
\* completed; once the client is closed nothing is posted any more.
C10_ShutdownStatusNotPostedWhileShuttingDown ==
  /\ [](\A r \in ReqIds :
          /\ \A i \in 1..Len(reqs[r].posted) :
               reqs[r].posted[i].shutting_down => reqs[r].posted[i].st # "SHUTDOWN"
          /\ (reqs[r].phase = "done" /\ reqs[r].posted = <<>>)
               => (reqs[r].rc = "ZCLOSING" /\ store.shutting_down)
          /\ (reqs[r].phase = "done" /\ reqs[r].rc = "ZCLOSING" /\ reqs[r].posted # <<>>)
               => reqs[r].posted = <<[st |-> "SHUTDOWN", shutting_down |-> FALSE]>>)
  /\ [][store.closed => reqs' = reqs]_esVars

\* C10 witness: during the shutdown one request ended with OK and was
\* completed, another ended with SHUTDOWN and was not.
C10_Witness ==
  /\ store.shutting_down
  /\ \E r, q \in ReqIds :
       /\ reqs[r].posted = <<[st |-> "OK", shutting_down |-> TRUE]>>
       /\ reqs[q].phase = "done"
       /\ reqs[q].rc = "ZCLOSING"
       /\ reqs[q].posted = <<>>

(***************************************************************************)
(* BufferedWriterSingleLog: retries and the payload limit.                 *)
(***************************************************************************)
BatchNumsOf(s) == {s.batches[i].num : i \in 1..Len(s.batches)}

\* C12: with retry_count = RetryCount >= 0 a batch is handed to the sink at
\* most RetryCount + 1 times, one first send and one send per scheduled
\* retry; when the reply to its last send is a failure, the appends of the
\* batch get the failure callback in that step and the batch leaves
\* batches_, from where alone a batch can be sent; its number is never
\* given to another batch.
C12_RetriedAtMostRetryCountTimes ==
  /\ [](\A i \in 1..Len(bw.batches) :
          /\ bw.batches[i].retry_count <= RetryCount
          /\ bw.batches[i].sends <= RetryCount + 1
          /\ bw.batches[i].sends <= bw.batches[i].retry_count + 1
          /\ bw.batches[i].num < bw.next_batch_num)
  /\ [][\A i \in 1..Len(bw.batches) :
          (/\ bw.batches[i].sends = RetryCount + 1
           /\ last'.op = "reply"
           /\ last'.num = bw.batches[i].num
           /\ last'.status = "FAILED")
            => /\ bw.batches[i].num \notin BatchNumsOf(bw')
               /\ bw'.next_batch_num >= bw.next_batch_num
               /\ \A k \in 1..Len(bw.batches[i].appends) :
                    bw'.callbacks[bw.batches[i].appends[k].id] =
                      Append(bw.callbacks[bw.batches[i].appends[k].id], "FAILED")]_vars

\* C12 witness: the only batch was sent, failed, was sent again by the retry
\* timer and failed again; its append has the failure callback and the batch
\* is gone.
C12_Witness ==
  /\ last.op = "reply"
  /\ last.status = "FAILED"
  /\ last.sends = RetryCount + 1
  /\ bw.batches = <<>>
  /\ bw.next_batch_num = 2
  /\ bw.callbacks[1] = <<"FAILED">>
  /\ nextAppend = 2

\* the appends, by id, of the batches of s numbered from lo to hi
IdsInBatches(s, lo, hi) ==
  UNION {Range(Ids(s.batches[j].appends)) :
           j \in {i \in 1..Len(s.batches) :
                     s.batches[i].num >= lo /\ s.batches[i].num <= hi}}

QueuedIds(s) == Range(Ids(Flatten(s.blocked_appends)))

\* C13: no batch ever holds more than max payload size; an append call
\* whose appends would take the BUILDING batch over it flushes that batch
\* first: after the call the batch is no longer BUILDING (it is being sent
\* or, refused by the sink, already failed) and holds none of the new
\* appends, and each new append is in a batch created later or, in the
\* one-at-a-time mode, waits in the queue for that batch (or was failed with
\* the queue).
C13_PayloadLimitForcesFlush ==
  /\ [](\A i \in 1..Len(bw.batches) :
          /\ calculateSize(bw.batches[i].appends) <= MaxPayloadSize
          /\ bw.batches[i].blob_bytes_total <= MaxPayloadSize)
  /\ [][(/\ haveBuildingBatch(bw)
          /\ last'.op = "append"
          /\ calculateSize(bw.batches[Len(bw.batches)].appends) + last'.size
               > MaxPayloadSize)
         => LET B == bw.batches[Len(bw.batches)]
                New == last'.first .. (last'.first + last'.n - 1)
            IN /\ \A j \in 1..Len(bw'.batches) :
                    bw'.batches[j].num = B.num =>
                      /\ bw'.batches[j].state \in
                           {"CONSTRUCTING_BLOB", "INFLIGHT", "RETRY_PENDING"}
                      /\ bw'.batches[j].appends = B.appends
               /\ (B.num \notin BatchNumsOf(bw') =>
                    \A k \in 1..Len(B.appends) :
                      bw'.callbacks[B.appends[k].id] # <<>>)
               /\ \A a \in New :
                    \/ a \in IdsInBatches(bw', B.num + 1, bw'.next_batch_num)
                    \/ a \in QueuedIds(bw')
                    \/ bw'.callbacks[a] # <<>>]_vars

\* C13 witness: the BUILDING batch held one byte; an append call with three
\* more bytes sent it off alone and, the mode being one-at-a-time, its own
\* two appends wait in the queue.
C13_Witness ==
  /\ last.op = "append"
  /\ last.first = 2
  /\ last.size = MaxPayloadSize
  /\ Len(bw.batches) = 1
  /\ bw.batches[1].state = "INFLIGHT"
  /\ Ids(bw.batches[1].appends) = <<1>>
  /\ calculateSize(bw.batches[1].appends) = 1
  /\ QueuedIds(bw) = {2, 3}

(***************************************************************************)
(* SequencerRouter: properties.                                            *)
(***************************************************************************)
\* the messages sent so far, by destination
SentTo == [i \in 1..Len(router.sent) |-> router.sent[i].dest]

C15_PreemptedByDeadNodeForcesReactivationOnce ==
  [][(/\ router'.op.name = "onRedirected"
      /\ router'.op.to = InvalidNode)
     => /\ router'.dead # {}
        /\ IF router'.op.from \in router.reactivated
           THEN /\ router'.status = "NOSEQUENCER"
                /\ router'.sent = router.sent
           ELSE /\ router'.status = "UNKNOWN"
                /\ router'.next_node = [dest |-> router'.op.from,
                                        flags |-> FORCE_REACTIVATION]
                /\ router'.sent = Append(router.sent, router'.next_node)]_router

\* C15 witness: N0 was preempted by a dead node twice: the second message
\* to N0 carried FORCE_REACTIVATION and the request has failed with
\* NOSEQUENCER.
C15_Witness ==
  /\ router.op.name = "onRedirected"
  /\ router.op.to = InvalidNode
  /\ router.sent = <<[dest |-> 0, flags |-> NoFlags],
                     [dest |-> 0, flags |-> FORCE_REACTIVATION]>>
  /\ router.status = "NOSEQUENCER"

(***************************************************************************)
(* RandomNodeSelector: properties.                                         *)
(***************************************************************************)
Selected == selector.op \in {"selected", "shuffled"}

\* candidates that are neither existing nor blacklisted
NotExcluded(p) == (Range(p.candidates) \ p.existing) \ p.blacklist

\* candidates that can be picked: not excluded, and alive for the filter
CanPick(p) == {n \in SelectorNodes : canPick(p, n)}

\* C16 as stated: the result is empty or has between required and
\* required + extras members, all of them candidates that are neither
\* existing nor blacklisted, and it is empty exactly when fewer than
\* required such candidates exist.
C16_EmptyIffTooFewNotExcluded ==
  Selected =>
    LET p == selector.params
        R == selector.result
    IN /\ R \subseteq NotExcluded(p)
       /\ (R = {} \/ (/\ Cardinality(R) >= p.num_required
                      /\ Cardinality(R) <= p.num_required + p.num_extras))
       /\ (R = {} <=> Cardinality(NotExcluded(p)) < p.num_required)

\* C16 as amended: as above, with the nodes the filter reports dead counted
\* out: the members can all be picked (candidates, not existing, not
\* blacklisted, alive for the filter) and the result is empty exactly when
\* fewer than required nodes can be picked; a result smaller than
\* required + extras has taken every node that can be picked.
C16_EmptyIffTooFewCanBePicked ==
  Selected =>
    LET p == selector.params
        R == selector.result
    IN /\ R \subseteq CanPick(p)
       /\ (R = {} \/ (/\ Cardinality(R) >= p.num_required
                      /\ Cardinality(R) <= p.num_required + p.num_extras))
       /\ (R = {} <=> Cardinality(CanPick(p)) < p.num_required)
       /\ (Cardinality(R) < p.num_required + p.num_extras /\ R # {}
             => R = CanPick(p))

\* C16 witness: enough candidates are neither existing nor blacklisted, but
\* the filter reports one of them dead and too few are left: the result is
\* empty.
C16_Witness ==
  /\ Selected
  /\ selector.result = {}
  /\ selector.params.filter.set
  /\ Cardinality(NotExcluded(selector.params)) >= selector.params.num_required
  /\ Cardinality(CanPick(selector.params)) = selector.params.num_required - 1

Closing(c) == ~sender.conns[c].closed /\ sender'.conns[c].closed
Invocations(s, c, cb) ==
  IF cb = DisconnectedClientCallback THEN s.dcc[c] ELSE s.cbs[cb].invoked

C20_NoCallbackAfterStopReturned ==
  /\ [](\A id \in StreamIds :
          reader.stop[id].executed =>
            /\ id \notin reader.streams
            /\ reader.substreams[id] = {}
            /\ reader.stop[id].called_back = reader.stop[id].has_callback)
  /\ [][\A id \in StreamIds :
          reader.stop[id].executed => reader'.emitted[id] = reader.emitted[id]]_vars

\* A stream that had emitted a callback was found and stopped by a request
\* with a callback, and a message that arrived for it afterwards was dropped.
C20_Witness ==
  \E id \in StreamIds :
    /\ reader.stop[id].executed
    /\ reader.stop[id].found
    /\ reader.stop[id].called_back
    /\ reader.emitted[id] # <<>>
    /\ reader.dropped[id] > 0

(***************************************************************************)
(* GetTrimPointRequest: properties.                                        *)
(***************************************************************************)
LastReply(t) == t.replies[Len(t.replies)]

\* C26: with every reply the recorded trim point stays or grows; it changes
\* only on a reply with status OK that carries a larger value, which it then
\* takes, and a reply with another status leaves it as it is.
C26_TrimPointNeverDecreases ==
  [][/\ trim'.trim_point_ >= trim.trim_point_
     /\ trim'.trim_point_ # trim.trim_point_ =>
          /\ LastReply(trim').status = "OK"
          /\ LastReply(trim').trim_point > trim.trim_point_
          /\ trim'.trim_point_ = LastReply(trim').trim_point
     /\ LastReply(trim').status # "OK" => trim'.trim_point_ = trim.trim_point_]_vars

\* The second reply failed with a larger trim point than the first, which
\* was OK, and the trim point of the first reply is still the recorded one.
C26_Witness ==
  /\ Len(trim.replies) = 2
  /\ trim.replies[1].status = "OK"
  /\ trim.replies[2].status # "OK"
  /\ trim.replies[2].trim_point > trim.replies[1].trim_point
  /\ trim.trim_point_ = trim.replies[1].trim_point
  /\ trim.trim_point_ > LSN_INVALID

(***************************************************************************)
(* Reader::nextFromLsnWhenStuck: properties.                               *)
(***************************************************************************)
StuckWithInvalidTail ==
  stuck.op = "next" /\ stuck.stuck_lsn # LSN_INVALID /\ stuck.tail_lsn = LSN_INVALID

\* C27, as stated: for a valid current LSN and an invalid tail the result is
\* (epoch + 1, esn 1), and (max epoch, max esn) when the epoch of the current
\* LSN is the maximum epoch.
C27_NextEpochOrMaxLsn ==
  StuckWithInvalidTail =>
    stuck.next = (IF lsn_to_epoch(stuck.stuck_lsn) < EPOCH_MAX
                  THEN compose_lsn(lsn_to_epoch(stuck.stuck_lsn) + 1, ESN_MIN)
                  ELSE LSN_MAX)

\* C27: for a valid current LSN and an invalid tail the result is
\* (epoch + 1, esn 1) while the epoch of the current LSN is below the maximum
\* epoch, and the current LSN itself when it is in the maximum epoch; the
\* result is never below the current LSN and never above (max epoch, max esn).
C27_NextEpochOrCurrentLsn ==
  StuckWithInvalidTail =>
    /\ stuck.next = (IF lsn_to_epoch(stuck.stuck_lsn) < EPOCH_MAX
                     THEN compose_lsn(lsn_to_epoch(stuck.stuck_lsn) + 1, ESN_MIN)
                     ELSE stuck.stuck_lsn)
    /\ stuck.next >= stuck.stuck_lsn
    /\ stuck.next <= LSN_MAX
    /\ lsn_to_epoch(stuck.next) >= lsn_to_epoch(stuck.stuck_lsn)

\* The reader is stuck at the first record of the last epoch and does not
\* know the tail: it stays where it is.
C27_Witness ==
  /\ StuckWithInvalidTail
  /\ stuck.stuck_lsn = compose_lsn(EPOCH_MAX, ESN_MIN)
  /\ stuck.next = compose_lsn(EPOCH_MAX, ESN_MIN)

\* C28: with the current LSN at (max epoch, max esn) the result is
\* (max epoch, max esn) for every tail: invalid, or valid in a lower epoch or
\* in the maximum epoch (there is no higher one).
C28_SaturatesAtMaxLsn ==
  (stuck.op = "next" /\ stuck.stuck_lsn = LSN_MAX) => stuck.next = LSN_MAX

\* The reader is at (max epoch, max esn) and the tail is a valid LSN of a
\* lower epoch.
C28_Witness ==
  /\ stuck.op = "next"
  /\ stuck.stuck_lsn = LSN_MAX
  /\ stuck.tail_lsn # LSN_INVALID
  /\ lsn_to_epoch(stuck.tail_lsn) < EPOCH_MAX
  /\ stuck.next = LSN_MAX

(***************************************************************************)
(* Setting overrides with a TTL: properties.                               *)
(***************************************************************************)
Newest(o) == o.requests[Len(o.requests)]

\* C30: an override that is in force is unset in the end, and it is unset
\* only when the TTL of the newest override of the setting expires: while
\* that TTL is running the override is in force, also when the TTL of an
\* earlier override of the setting has expired in the meantime.
C30_OverrideLastsUntilNewestTtl ==
  /\ (overrides.override # NoOverride) ~> (overrides.override = NoOverride)
  /\ [](overrides.requests # <<>> =>
          IF overrides.now < Newest(overrides).deadline
          THEN overrides.override # NoOverride /\ Newest(overrides).active
          ELSE TRUE)
  /\ [][(overrides.override # NoOverride /\ overrides'.override = NoOverride) =>
          overrides.now = Newest(overrides).deadline]_vars

\* A second override was applied while the timer of the first was running;
\* the TTL of the first has since expired, that of the second has not, and
\* the override is in force.
C30_Witness ==
  /\ Len(overrides.requests) = 2
  /\ overrides.requests[1].deadline <= overrides.now
  /\ overrides.requests[1].deadline < overrides.requests[2].deadline
  /\ overrides.now < overrides.requests[2].deadline
  /\ ~overrides.requests[1].active
  /\ overrides.override # NoOverride

C21_NoSendOnOutdatedConnection ==
  /\ [](\A c \in ConnIds :
          (sender.conns[c].place = "map") <=> (c = sender.server_conn))
  /\ [](sender.server_conn # 0 =>
          ~isNodeConnectionAddressOrGenerationOutdated(sender, sender.server_conn))
  /\ [][sender'.nodes_ # sender.nodes_ =>
          \A c \in ConnIds :
            (/\ sender.conns[c].place = "map"
             /\ \/ ~sender'.nodes_.in_config
                \/ sender.conns[c].generation # sender'.nodes_.generation
                \/ sender.conns[c].address # sender'.nodes_.address)
            => /\ sender'.conns[c].closed
               /\ sender'.conns[c].place = "gone"
               /\ sender'.server_conn # c]_vars
  /\ [][sender'.sent_on # 0 =>
          /\ sender'.conns[sender'.sent_on].queued
          /\ ~isNodeConnectionAddressOrGenerationOutdated(sender', sender'.sent_on)]_vars
  /\ [][\A c \in ConnIds :
          (sender'.conns[c].queued /\ ~sender.conns[c].queued) =>
            /\ sender'.sent_on = c
            /\ ~isNodeConnectionAddressOrGenerationOutdated(sender', c)]_vars

\* A connection was closed with NOTINCONFIG and destroyed by a configuration
\* change while it had a message queued or not, and a message has since been
\* queued on a connection created for the new generation.
C21_Witness ==
  /\ \E c \in ConnIds : /\ sender.conns[c].place = "gone"
                        /\ sender.conns[c].reason = "NOTINCONFIG"
  /\ sender.nodes_.generation # ServerSenderInitial.nodes_.generation
  /\ sender.sent_on # 0
  /\ sender.conns[sender.sent_on].generation = sender.nodes_.generation
  /\ sender.conns[sender.sent_on].queued

\* C22: when TLS is needed towards the node, a send never queues its message
\* on a plaintext connection: the connection it uses is a TLS connection;
\* a plaintext connection that was in the map has left the map by then and
\* waits for the worker to close it; and no message is queued on a
\* connection that has left the map.
C22_NoMessageOnPlaintextWhenTlsRequired ==
  /\ [][(sender'.sent_on # 0 /\ useSSLWith(sender)) =>
          /\ sender'.sent_on # 0 => sender'.conns[sender'.sent_on].ssl
          /\ \A c \in ConnIds :
               ~sender'.conns[c].ssl =>
                 (sender'.conns[c].queued => sender.conns[c].queued)
          /\ (sender.server_conn # 0 /\ ~sender.conns[sender.server_conn].ssl
              /\ sender.nodes_.in_config) =>
               /\ sender'.server_conn # sender.server_conn
               /\ sender'.conns[sender.server_conn].place = "deferred"]_vars
  /\ [][\A c \in ConnIds :
          sender.conns[c].place = "deferred" =>
            (sender'.conns[c].queued => sender.conns[c].queued)]_vars
  /\ [](\A c \in ConnIds :
          (sender.conns[c].place = "gone" => sender.conns[c].closed))

\* C22, as stated: the plaintext connection is closed by the time the
\* message has been sent.
C22_PlaintextClosedBeforeSend ==
  [][(/\ useSSLWith(sender)
      /\ sender.server_conn # 0
      /\ ~sender.conns[sender.server_conn].ssl
      /\ sender'.sent_on # 0)
     => sender'.conns[sender.server_conn].closed]_vars

\* A message has just been queued on a TLS connection while the plaintext
\* connection it replaces, with its own message, is still open.
C22_Witness ==
  /\ useSSLWith(sender)
  /\ sender.sent_on # 0
  /\ sender.conns[sender.sent_on].ssl
  /\ sender.conns[sender.sent_on].queued
  /\ \E c \in ConnIds : /\ sender.conns[c].place = "deferred"
                        /\ ~sender.conns[c].ssl
                        /\ ~sender.conns[c].closed
                        /\ sender.conns[c].queued

\* C25: the connections that one pass of the health check has closed for
\* being stalled or slow on the network are never more than
\* rate_limit_socket_closed.
C25_ClosuresWithinRateLimit ==
  sender.pass.slow_closed <= sender.rate_limit_socket_closed

\* the bytes pending that the limit of the Sender applies to are more than
\* the limit, for a message to a peer of this type
OverOutbufsLimit(s, peer_type) ==
  IF s.server /\ s.outbufs_limit_per_peer_type_enabled
  THEN s.bytes_pending[peer_type] > s.outbufs_max_per_thread \div Cardinality(PeerTypes)
  ELSE s.bytes_pending["CLIENT"] + s.bytes_pending["NODE"] > s.outbufs_max_per_thread

\* C24: a send of a message that is not a handshake message, with the bytes
\* pending above the limit of the Sender and the connection at its own
\* minimum limit, fails with NOBUFS and leaves the bytes pending as they
\* were; the Sender refuses a message for its limit in no other case, so
\* never a handshake message.
C24_NobufsAtLimitExceptHandshake ==
  [][sender'.last.op = "send" =>
       /\ (/\ ~sender'.last.handshake
           /\ OverOutbufsLimit(sender, sender'.last.peer_type)
           /\ sender'.last.min_out_buf_limit_reached)
          => /\ sender'.last.err = "NOBUFS"
             /\ sender'.last.by = "Sender"
             /\ ~sender'.last.queued
             /\ sender'.bytes_pending = sender.bytes_pending
       /\ sender'.last.by = "Sender"
          => /\ ~sender'.last.handshake
             /\ OverOutbufsLimit(sender, sender'.last.peer_type)
             /\ sender'.last.min_out_buf_limit_reached
       /\ sender'.last.queued <=> sender'.last.err = "OK"
       /\ ~sender'.last.queued => sender'.bytes_pending = sender.bytes_pending]_vars

\* The Sender has refused a message that is not a handshake message with
\* NOBUFS, the bytes pending being above its limit.
C24_Witness ==
  /\ sender.last.op = "send"
  /\ sender.last.by = "Sender"
  /\ sender.last.err = "NOBUFS"
  /\ ~sender.last.handshake
  /\ OverOutbufsLimit(sender, sender.last.peer_type)

\* the sends that wait for bandwidth with a callback
Parked(s) == {m \in MsgIds : s.msgs[m].state = "parked"}

C31_AtMostOneCallback ==
  \A a \in AppendIds : Len(bw.callbacks[a]) <= 1

\* the appends in a batch
BatchedIds(s) ==
  UNION {Range(Ids(s.batches[i].appends)) : i \in 1..Len(s.batches)}

\* C33: in the one-at-a-time mode, while appends are queued there is a batch
\* that is not finished; and every queued append is, in the end, in a batch
\* or called back.
C33_QueuedAppendNeverStranded ==
  /\ [](bw.blocked_appends # <<>> =>
          \E i \in 1..Len(bw.batches) : bw.batches[i].state # "FINISHED")
  /\ \A a \in AppendIds :
       (a \in QueuedIds(bw)) ~> (a \in BatchedIds(bw) \/ bw.callbacks[a] # <<>>)

\* An append that was queued behind a batch in flight is now in the batch
\* in flight itself, with another append queued behind it.
C33_Witness ==
  /\ alive = "running"
  /\ bw.log # <<>>
  /\ \E i \in 1..Len(bw.batches) :
       /\ bw.batches[i].state = "INFLIGHT"
       /\ bw.batches[i].num > 1
  /\ bw.blocked_appends # <<>>

\* C35: batches are first handed to the sink in the order of their numbers: a
\* batch that was handed to the sink has no lower-numbered batch that was
\* not, the batches handed to the sink are those below next_batch_to_send_,
\* and the appends reach the sink in the order of their batches
C35_SentInBatchNumberOrder ==
  /\ \A i, j \in 1..Len(bw.batches) :
       (bw.batches[i].num < bw.batches[j].num /\ bw.batches[j].sends > 0)
         => bw.batches[i].sends > 0
  /\ \A i \in 1..Len(bw.batches) :
       bw.batches[i].sends > 0 <=> bw.batches[i].num < bw.next_batch_to_send
  /\ StrictlyIncreasing(bw.sent)

\* the blob of a batch was finished on the background thread after the blob
\* of a higher-numbered batch, and both batches went to the sink in that step
C35_Witness ==
  /\ last.op = "continueBlobSend"
  /\ \E i, j \in 1..Len(bw.batches) :
       /\ bw.batches[i].num = last.num
       /\ bw.batches[j].num > last.num
       /\ bw.batches[i].sends > 0
       /\ bw.batches[j].sends > 0
       /\ bw.batches[j].blob_bytes_total < BgThreshold

MaxMultiOps == 2

\* request r waits for its multi-op or for the creation of the root znodes
InProvisioning(r) ==
  IF r \in ReqIds THEN reqs[r].phase \in {"multiOp", "createWithAncestors"} ELSE FALSE

\* request r has ended, or no callback runs any more
ProvisioningOver(r) ==
  IF r \in ReqIds THEN reqs[r].phase = "done" \/ store.closed \/ store.aborted ELSE FALSE

\* C36: provisioning terminates: a request runs the multi-op at most twice,
\* the second time only after a multi-op that found no root, and a request
\* in provisioning ends, unless the Zookeeper client is closed or the
\* process has ended before
C36_ProvisioningTerminates ==
  /\ [](\A r \in ReqIds : reqs[r].multis <= MaxMultiOps)
  /\ \A r \in 1..MaxRequests :
       InProvisioning(r) ~> ProvisioningOver(r)

\* a request ended with OK after the multi-op found no root, the root znodes
\* were created and the multi-op was run again
C36_Witness ==
  \E r \in ReqIds :
    /\ reqs[r].phase = "done"
    /\ reqs[r].multis = MaxMultiOps
    /\ reqs[r].posted = <<[st |-> "OK", shutting_down |-> FALSE]>>

\* C39: after a call of sendMessageImpl for a message has returned, the
\* caller still holds the message exactly when the call did not return 0,
\* and the Sender's side holds it exactly when the call returned 0; a call
\* changes the ownership of no other message
C39_OwnershipOnSuccessOnly ==
  /\ [](\A m \in MsgIds :
          /\ sender.returned[m] => (sender.rv[m] = 0 <=> ~sender.caller[m])
          /\ sender.caller[m] <=> sender.place[m] = "none")
  /\ [][\A m \in MsgIds :
          sender'.caller[m] # sender.caller[m] => sender'.rv[m] = 0]_vars

\* one message was refused with NOBUFS or given back with CBREGISTERED and
\* the caller holds it, another was taken into the flow group
C39_Witness ==
  \E m, n \in MsgIds :
    /\ sender.rv[m] = -1
    /\ sender.err \in {"NOBUFS", "CBREGISTERED"}
    /\ sender.caller[m]
    /\ sender.rv[n] = 0
    /\ sender.place[n] = "flow_group"
    /\ ~sender.caller[n]

\* C38 as stated: a request for the nodes configuration is answered
\* UPTODATE with an empty body exactly when the version of the node is at
\* most the version the requester reported, and OK with the serialized
\* configuration otherwise.
C38_UptodateOrSerializedConfig ==
  [][cluster'.request # cluster.request \/ cluster'.reply # cluster.reply =>
       IF cluster.nodes_cfg.version <= cluster'.request.my_version
       THEN /\ cluster'.reply.status = "UPTODATE"
            /\ cluster'.reply.body = EmptyBody
       ELSE /\ cluster'.reply.status = "OK"
            /\ cluster'.reply.body = <<cluster.nodes_cfg.version, cluster.nodes_cfg.nodes>>]_vars

\* C38 as amended: the node answers UPTODATE with an empty body exactly when
\* its version is at most the version the requester reported; otherwise it
\* answers OK with its serialized configuration when the configuration can
\* be serialized, and sends no answer when it cannot.
C38_UptodateOrSerializedConfigOrNothing ==
  [][FetchReceived =>
       IF cluster.nodes_cfg.version <= cluster'.request.my_version
       THEN /\ cluster'.reply.status = "UPTODATE"
            /\ cluster'.reply.body = EmptyBody
            /\ cluster'.reply.version = cluster.nodes_cfg.version
       ELSE IF cluster'.request.serialized
       THEN /\ cluster'.reply.status = "OK"
            /\ cluster'.reply.body = <<cluster.nodes_cfg.version, cluster.nodes_cfg.nodes>>
            /\ cluster'.reply.version = cluster.nodes_cfg.version
       ELSE cluster'.reply = NoConfigChanged]_vars

\* a requester that reported the version of the node was answered UPTODATE
\* after the node had taken a new configuration
C38_Witness ==
  /\ cluster.handled
  /\ cluster.nodes_cfg.version > 1
  /\ cluster.request.my_version = cluster.nodes_cfg.version
  /\ cluster.reply.status = "UPTODATE"
  /\ cluster.reply.body = EmptyBody
  /\ cluster.reply.version = cluster.nodes_cfg.version

\* the nodes whose registerSelf has returned an index
Registered == {h \in DOMAIN cluster.handlers : cluster.handlers[h].result # {}}

\* C32: no two nodes get the same index from registerSelf, the index a node
\* got is its own in the store, and a write of a node changes the store only
\* when the configuration the node chose its index from has the version the
\* store holds
C32_NoIndexRegisteredTwice ==
  /\ [](\A a, b \in Registered :
          a # b => cluster.handlers[a].result # cluster.handlers[b].result)
  /\ [](\A a \in Registered :
          \A idx \in cluster.handlers[a].result : <<idx, a>> \in cluster.stored.nodes)
  /\ [][\A h \in DOMAIN cluster.handlers :
          (/\ cluster.handlers[h].pc = "write"
           /\ cluster'.handlers[h] # cluster.handlers[h]
           /\ cluster'.stored # cluster.stored)
            => /\ cluster.handlers[h].nc.version = cluster.stored.version
               /\ cluster.handlers[h].op = "register"
                    => cluster.handlers[h].my_idx \notin Taken(cluster.stored)]_vars

\* two nodes chose the same index from the same configuration; one was
\* refused, chose again and both are registered, with different indices;
\* no other writer has changed the configuration
C32_Witness ==
  \E a, b \in Registered :
    /\ a # b
    /\ cluster.handlers[a].op = "register"
    /\ cluster.handlers[b].op = "register"
    /\ cluster.handlers[a].trials = 1
    /\ cluster.handlers[b].trials > 1
    /\ cluster.handlers[a].result # cluster.handlers[b].result
    /\ cluster.other_updates = 1

\* C37: a try is followed by another one only after VERSION_MISMATCH and
\* only before the tenth; the operation ends with the status of its last
\* try; registerSelf gives an index exactly when that status is OK; and an
\* operation that has begun ends
C37_RetriesOnMismatchAtMostTenTimes ==
  /\ [](\A h \in DOMAIN cluster.handlers :
          /\ cluster.handlers[h].trials <= kMaxNumRetries
          /\ (cluster.handlers[h].pc \in {"run", "write", "fetch"}
                /\ cluster.handlers[h].trials > 0)
               => (/\ cluster.handlers[h].status = "VERSION_MISMATCH"
                   /\ cluster.handlers[h].trials < kMaxNumRetries)
          /\ (cluster.handlers[h].pc = "done"
                /\ cluster.handlers[h].status = "VERSION_MISMATCH")
               => cluster.handlers[h].trials = kMaxNumRetries
          /\ (cluster.handlers[h].pc = "done" /\ cluster.handlers[h].op = "register")
               => (cluster.handlers[h].result # {}
                     <=> cluster.handlers[h].status = "OK"))
  /\ \A h \in {1} :
       (cluster.handlers[h].pc # "idle") ~> (cluster.handlers[h].pc = "done")

\* registerSelf has ended with VERSION_MISMATCH after ten tries and has
\* given no index
C37_Witness ==
  /\ cluster.handlers[1].pc = "done"
  /\ cluster.handlers[1].op = "register"
  /\ cluster.handlers[1].status = "VERSION_MISMATCH"
  /\ cluster.handlers[1].trials = kMaxNumRetries
  /\ cluster.handlers[1].result = {}

====
